---- MODULE Spec2Model ----
(***************************************************************************)
(* Model of the r600/sfn ALU instruction (AluInstr) of                     *)
(* src/gallium/drivers/r600/sfn/sfn_instr_alu.cpp: construction and        *)
(* use-list maintenance, source/destination replacement, splitting of      *)
(* multi-slot instructions, the read-port check, the scheduler readiness   *)
(* predicate and the text form (do_print / from_string); and of the       *)
(* buffer-object allocator and store of src/imagination/vulkan/pvr_bo.c.   *)
(***************************************************************************)
EXTENDS Integers, Sequences, FiniteSets, TLC

\* ------------------------------------------------------------------------
\* Bounds of the model
\* ------------------------------------------------------------------------
\* number of instructions the constructor action may create
MaxCtor == 1
\* number of groups split() may create
MaxGroups == 1
\* largest program-order index / block id used by the readiness model
MaxIndex == 2

NULL == "null"

\* ------------------------------------------------------------------------
\* Virtual values.  A value is a register, an array element (a register
\* with pin_array and an optional indirect address), a uniform (with an
\* optional buffer address), or a literal.
\* ------------------------------------------------------------------------
ValueTab ==
  [ R1x |-> [kind |-> "reg",     sel |-> 1,   chan |-> 0, ssa |-> TRUE,  addr |-> NULL,  pin |-> "none"],
    R2x |-> [kind |-> "reg",     sel |-> 2,   chan |-> 0, ssa |-> TRUE,  addr |-> NULL,  pin |-> "free"],
    R3y |-> [kind |-> "reg",     sel |-> 3,   chan |-> 1, ssa |-> FALSE, addr |-> NULL,  pin |-> "none"],
    R4w |-> [kind |-> "reg",     sel |-> 4,   chan |-> 3, ssa |-> TRUE,  addr |-> NULL,  pin |-> "group"],
    R5x |-> [kind |-> "reg",     sel |-> 5,   chan |-> 0, ssa |-> TRUE,  addr |-> NULL,  pin |-> "chan"],
    R6z |-> [kind |-> "reg",     sel |-> 6,   chan |-> 2, ssa |-> TRUE,  addr |-> NULL,  pin |-> "none"],
    A0x |-> [kind |-> "array",   sel |-> 8,   chan |-> 0, ssa |-> FALSE, addr |-> NULL,  pin |-> "array"],
    A1x |-> [kind |-> "array",   sel |-> 9,   chan |-> 0, ssa |-> FALSE, addr |-> "R3y", pin |-> "array"],
    A2y |-> [kind |-> "array",   sel |-> 10,  chan |-> 1, ssa |-> FALSE, addr |-> "R2x", pin |-> "array"],
    U1  |-> [kind |-> "uniform", sel |-> 512, chan |-> 0, ssa |-> FALSE, addr |-> "R3y", pin |-> "none"],
    L0  |-> [kind |-> "literal", sel |-> 253, chan |-> 0, ssa |-> FALSE, addr |-> NULL,  pin |-> "none"],
    D0  |-> [kind |-> "reg",     sel |-> 126, chan |-> 0, ssa |-> FALSE, addr |-> NULL,  pin |-> "chan"],
    D1  |-> [kind |-> "reg",     sel |-> 126, chan |-> 1, ssa |-> FALSE, addr |-> NULL,  pin |-> "chan"],
    D2  |-> [kind |-> "reg",     sel |-> 126, chan |-> 2, ssa |-> FALSE, addr |-> NULL,  pin |-> "chan"],
    D3  |-> [kind |-> "reg",     sel |-> 126, chan |-> 3, ssa |-> FALSE, addr |-> NULL,  pin |-> "chan"] ]

Values == DOMAIN ValueTab

as_register(v) == v # NULL /\ ValueTab[v].kind \in {"reg", "array"}
as_uniform(v) == v # NULL /\ ValueTab[v].kind = "uniform"
Registers == {v \in Values : as_register(v)}
chan(v) == ValueTab[v].chan
sel(v) == ValueTab[v].sel
has_flag_ssa(v) == ValueTab[v].ssa
\* LocalArrayValue::addr(), UniformValue::buf_addr() and get_addr()
get_addr(v) == ValueTab[v].addr
\* VirtualValue::equal_to: same kind, selector, channel
equal_to(a, b) ==
  /\ ValueTab[a].kind = ValueTab[b].kind
  /\ sel(a) = sel(b)
  /\ chan(a) = chan(b)
\* ValueFactory::dummy_dest(chan)
dummy_dest(c) == CASE c = 0 -> "D0" [] c = 1 -> "D1" [] c = 2 -> "D2" [] OTHER -> "D3"

\* alu_ops.at(opcode).nsrc
nsrc(op) ==
  CASE op = "NOP" -> 0
    [] op = "MOV" -> 1
    [] op = "SIN" -> 1
    [] op = "ADD" -> 2
    [] op = "DOT4" -> 2
    [] op = "INTERP_X" -> 2
    [] op = "MULADD" -> 3

\* AluBankSwizzle, in the order of the enumeration (alu_vec_unknown ends it)
BankSwizzles == <<"VEC_012", "VEC_021", "VEC_120", "VEC_102", "VEC_201", "VEC_210">>
alu_vec_unknown == "VEC_UNKNOWN"
cf_alu == "ALU"

\* cycle on which source i (0-based) is read under a bank swizzle
cycle_vec(bs, i) ==
  LET m == CASE bs = "VEC_012" -> <<0, 1, 2>>
             [] bs = "VEC_021" -> <<0, 2, 1>>
             [] bs = "VEC_120" -> <<1, 2, 0>>
             [] bs = "VEC_102" -> <<1, 0, 2>>
             [] bs = "VEC_201" -> <<2, 0, 1>>
             [] bs = "VEC_210" -> <<2, 1, 0>>
  IN m[i + 1]

\* AluReadportReservation: set of <<cycle, chan, sel>> reserved GPR ports.
\* schedule_vec_src places the register operands of src under swizzle bs;
\* it fails on a port that holds another selector and reserves on success.
rpr_entries(src, bs) ==
  {<<cycle_vec(bs, i - 1), chan(src[i]), sel(src[i])>> :
      i \in {k \in 1..Len(src) : as_register(src[k])}}

schedule_vec_src(rpr, src, bs) ==
  LET new == rpr_entries(src, bs)
      ok == \A e \in new : \A o \in rpr : (o[1] = e[1] /\ o[2] = e[2]) => o[3] = e[3]
  IN [ok |-> ok, rpr |-> IF ok THEN rpr \cup new ELSE rpr]

\* ------------------------------------------------------------------------
\* State
\* ------------------------------------------------------------------------
VARIABLES
  instr,     \* arena of AluInstr objects (sequence of records)
  pin,       \* Register::pin() of every value
  uses,      \* Register::uses(): set of instruction ids
  parents,   \* Register::parents(): set of instruction ids
  groups,    \* arena of AluGroup objects: slots and read-port reservation
  last,      \* the last call made and what it returned
  text,      \* the line printed by do_print, as a sequence of tokens
  s_alu_map_by_name,  \* memo table of from_string for regular opcodes
  s_lds_map_by_name,  \* memo table of from_string for LDS opcodes
  bo_store,  \* pvr_device::bo_store: NULL, or the tree, its size and mutex
  bos,       \* the pvr_bo objects: resources held and winsys calls made
  threads    \* the threads calling into pvr_bo.c: position and locals

vars == <<instr, pin, uses, parents, groups, last, text,
          s_alu_map_by_name, s_lds_map_by_name, bo_store, bos, threads>>
\* the state of the buffer-object store of pvr_bo.c
pvr == <<bo_store, bos, threads>>
\* the state of the text form and of the buffer-object store, untouched by
\* the operand operations
io == <<text, s_alu_map_by_name, s_lds_map_by_name, pvr>>
\* the shader compiler runs without a pvr_device
NoDevice == bo_store = [present |-> FALSE] /\ bos = <<>> /\ threads = <<>>

has_alu_flag(i, f) == f \in i.flags

\* record of a call: operation, instruction, return value, reason
Call(op, id, ret, why) == [op |-> op, id |-> id, ret |-> ret, why |-> why]
\* record of a call that also keeps its register argument
CallArg(op, id, ret, why, arg) ==
  [op |-> op, id |-> id, ret |-> ret, why |-> why, arg |-> arg]

\* the operand slice of slot s (0-based)
slot_src(i, s) ==
  LET n == nsrc(i.opcode) IN SubSeq(i.src, s * n + 1, s * n + n)

Range(q) == {q[k] : k \in 1..Len(q)}

\* registers AluInstr::update_uses() registers the instruction with
update_uses_srcs(src, p) ==
  {r \in Registers :
     \E k \in 1..Len(src) :
        \/ as_register(src[k]) /\ r = src[k]
        \/ /\ as_register(src[k]) /\ p[src[k]] = "array"
           /\ get_addr(src[k]) # NULL /\ as_register(get_addr(src[k]))
           /\ r = get_addr(src[k])
        \/ /\ as_uniform(src[k])
           /\ get_addr(src[k]) # NULL /\ as_register(get_addr(src[k]))
           /\ r = get_addr(src[k])}

update_uses_dest(dest, flags, p) ==
  {r \in Registers :
     /\ dest # NULL /\ "write" \in flags
     /\ p[dest] = "array"
     /\ get_addr(dest) # NULL /\ as_register(get_addr(dest))
     /\ r = get_addr(dest)}

add_all(f, rs, id) == [r \in DOMAIN f |-> IF r \in rs THEN f[r] \cup {id} ELSE f[r]]
del_all(f, rs, id) == [r \in DOMAIN f |-> IF r \in rs THEN f[r] \ {id} ELSE f[r]]

NewInstr(op, dest, src, flags, slots) ==
  [opcode |-> op, dest |-> dest, src |-> src,
   flags |-> flags \cup (IF Len(src) = 3 THEN {"op3"} ELSE {}),
   bank_swizzle |-> alu_vec_unknown, cf_type |-> cf_alu, slots |-> slots,
   block |-> 0, index |-> 0, scheduled |-> FALSE, required |-> {}, extra |-> {},
   group |-> 0, live |-> TRUE, origin |-> "ctor",
   lds_opcode |-> NULL, fallback_chan |-> 0]

Init ==
  /\ instr = <<>>
  /\ pin = [v \in Values |-> ValueTab[v].pin]
  /\ uses = [v \in Values |-> {}]
  /\ parents = [v \in Values |-> {}]
  /\ groups = <<>>
  /\ last = Call("init", 0, "none", "none")
  /\ text = <<>>
  /\ s_alu_map_by_name = {}
  /\ s_lds_map_by_name = {}
  /\ NoDevice

\* ------------------------------------------------------------------------
\* AluInstr::AluInstr(opcode, dest, src, flags, slots) and update_uses()
\* ------------------------------------------------------------------------
NumCtor == Cardinality({k \in 1..Len(instr) : instr[k].origin = "ctor"})

\* a variant without the test of the source count
ctor_throws_write_only(op, dest, src, flags, slots) ==
  "write" \in flags /\ dest = NULL

\* the two ASSERT_OR_THROW of the constructor
ctor_throws(op, dest, src, flags, slots) ==
  \/ Len(src) # nsrc(op) * slots
  \/ ("write" \in flags /\ dest = NULL)

\* which of the two ASSERT_OR_THROW of the constructor fails: the test of
\* the source count comes first
ctor_message(op, src, slots) ==
  IF Len(src) # nsrc(op) * slots THEN "nsrc" ELSE "write"

\* update_uses() of a new instruction: the registers whose use list and
\* whose parent list receive it
ctor_uses(i) ==
  update_uses_srcs(i.src, pin) \cup update_uses_dest(i.dest, i.flags, pin)

ctor_parents(i) ==
  IF i.dest # NULL /\ has_alu_flag(i, "write") THEN {i.dest} ELSE {}

Construct(op, dest, src, flags, slots) ==
  /\ NumCtor < MaxCtor
  /\ IF ctor_throws(op, dest, src, flags, slots)
     THEN /\ last' = Call("ctor", 0, "throw", ctor_message(op, src, slots))
          /\ UNCHANGED <<instr, pin, uses, parents, groups>>
     ELSE LET id == Len(instr) + 1
              i == NewInstr(op, dest, src, flags, slots)
          IN /\ instr' = Append(instr, i)
             /\ uses' = add_all(uses, ctor_uses(i), id)
             /\ parents' = add_all(parents, ctor_parents(i), id)
             /\ last' = Call("ctor", id, "ok", "none")
             /\ UNCHANGED <<pin, groups>>

\* ------------------------------------------------------------------------
\* AluInstr::check_readport_validation
\* ------------------------------------------------------------------------
\* operands of slot s with old replaced by new
subst_slot(i, s, old, new) ==
  LET q == slot_src(i, s)
  IN [k \in 1..Len(q) |-> IF equal_to(q[k], old) THEN new ELSE q[k]]

\* the loop over the bank swizzles of one slot: the first swizzle that can
\* be scheduled updates rpr_sum and breaks, every failed one clears success
RECURSIVE crv_swizzles(_, _, _, _)
crv_swizzles(src, b, rpr_sum, success) ==
  IF b > Len(BankSwizzles)
  THEN [rpr_sum |-> rpr_sum, success |-> success]
  ELSE LET r == schedule_vec_src(rpr_sum, src, BankSwizzles[b])
       IN IF r.ok
          THEN [rpr_sum |-> r.rpr, success |-> success]
          ELSE crv_swizzles(src, b + 1, rpr_sum, FALSE)

RECURSIVE crv_slots(_, _, _, _, _, _)
crv_slots(i, old, new, s, rpr_sum, success) ==
  IF ~(s < i.slots /\ success)
  THEN success
  ELSE LET t == crv_swizzles(subst_slot(i, s, old, new), 1, rpr_sum, success)
       IN crv_slots(i, old, new, s + 1, t.rpr_sum, t.success)

\* a variant without the early return for fewer than three sources
check_readport_validation_no_skip(i, old, new) ==
  crv_slots(i, old, new, 0, {}, TRUE)

check_readport_validation(i, old, new) ==
  IF Len(i.src) < 3 THEN TRUE
  ELSE crv_slots(i, old, new, 0, {}, TRUE)

\* ------------------------------------------------------------------------
\* AluGroup::add_instruction: the first bank swizzle under which every slot
\* of the instruction fits the reservation of the group is committed
\* ------------------------------------------------------------------------
RECURSIVE first_fit(_, _, _)
first_fit(rpr, src, b) ==
  IF b > Len(BankSwizzles)
  THEN [ok |-> FALSE, rpr |-> rpr, bs |-> alu_vec_unknown]
  ELSE LET r == schedule_vec_src(rpr, src, BankSwizzles[b])
       IN IF r.ok THEN [ok |-> TRUE, rpr |-> r.rpr, bs |-> BankSwizzles[b]]
          ELSE first_fit(rpr, src, b + 1)

\* slot an instruction occupies in a group: the channel of its destination
dest_chan(i) == IF i.dest = NULL THEN 0 ELSE chan(i.dest)

add_instruction(g, id, i) ==
  LET f == first_fit(g.rpr, slot_src(i, 0), 1)
      free == g.slots[dest_chan(i) + 1] = 0
  IN [ok |-> f.ok /\ free,
      group |-> IF f.ok /\ free
                THEN [slots |-> [g.slots EXCEPT ![dest_chan(i) + 1] = id], rpr |-> f.rpr]
                ELSE g,
      bs |-> f.bs]

NewGroup == [slots |-> <<0, 0, 0, 0, 0>>, rpr |-> {}]

\* a new group receives a single-slot instruction
GroupAdd(id) ==
  /\ id \in 1..Len(instr)
  /\ instr[id].live /\ instr[id].group = 0 /\ instr[id].slots = 1
  /\ Len(groups) < MaxGroups
  /\ LET a == add_instruction(NewGroup, id, instr[id])
     IN /\ a.ok
        /\ groups' = Append(groups, a.group)
        /\ instr' = [instr EXCEPT ![id].group = Len(groups) + 1,
                                  ![id].bank_swizzle = a.bs]
  /\ last' = Call("add_instruction", id, "true", "none")
  /\ UNCHANGED <<pin, uses, parents>>

\* ------------------------------------------------------------------------
\* AluInstr::replace_source
\* ------------------------------------------------------------------------
\* the read-port loop of replace_source: every slot takes the first swizzle
\* that fits on top of the same reservation object
RECURSIVE rs_readports(_, _, _, _, _)
rs_readports(i, old, new, s, rpr) ==
  IF s >= i.slots
  THEN [ok |-> TRUE, rpr |-> rpr]
  ELSE LET f == first_fit(rpr, subst_slot(i, s, old, new), 1)
       IN IF f.ok THEN rs_readports(i, old, new, s + 1, f.rpr)
          ELSE [ok |-> FALSE, rpr |-> rpr]

\* a variant that lets any address in
rs_addr_conflict_none(i, new) == FALSE

\* line 390-397: new_src carries an address and some source carries another
rs_addr_conflict(i, new) ==
  /\ get_addr(new) # NULL
  /\ \E k \in 1..Len(i.src) :
        /\ get_addr(i.src[k]) # NULL
        /\ ~equal_to(get_addr(i.src[k]), get_addr(new))

rs_dest_conflict(i, new, p) ==
  /\ i.dest # NULL
  /\ p[i.dest] = "array" /\ p[new] = "array"
  /\ get_addr(i.dest) # NULL /\ get_addr(new) # NULL
  /\ as_register(get_addr(i.dest))
  /\ ~equal_to(get_addr(i.dest), get_addr(new))

rs_needs_readports(i) == i.slots * nsrc(i.opcode) > 2 \/ i.group # 0

\* a variant that only looks at the first operand
rs_process_first_only(i, old, new) ==
  Len(i.src) > 0 /\ equal_to(old, i.src[1])

\* the return value: some operand was equal to old_src
rs_process(i, old, new) ==
  \E k \in 1..Len(i.src) : equal_to(old, i.src[k])

rs_new_src(i, old, new) ==
  [k \in 1..Len(i.src) |-> IF equal_to(old, i.src[k]) THEN new ELSE i.src[k]]

ReplaceSource(id, old, new) ==
  /\ id \in 1..Len(instr) /\ instr[id].live
  /\ LET i == instr[id]
         start == IF i.group = 0 THEN {} ELSE groups[i.group].rpr
         rp == rs_readports(i, old, new, 0, start)
         process == rs_process(i, old, new)
     IN IF ~check_readport_validation(i, old, new)
        THEN /\ last' = CallArg("replace_source", id, "false", "readport", new)
             /\ UNCHANGED <<instr, pin, uses, parents, groups>>
        ELSE IF pin[old] = "array"
        THEN /\ last' = CallArg("replace_source", id, "false", "old_array", new)
             /\ UNCHANGED <<instr, pin, uses, parents, groups>>
        ELSE IF rs_addr_conflict(i, new)
        THEN /\ last' = CallArg("replace_source", id, "false", "addr", new)
             /\ UNCHANGED <<instr, pin, uses, parents, groups>>
        ELSE IF rs_dest_conflict(i, new, pin)
        THEN /\ last' = CallArg("replace_source", id, "false", "dest_addr", new)
             /\ UNCHANGED <<instr, pin, uses, parents, groups>>
        ELSE IF rs_needs_readports(i) /\ ~rp.ok
        THEN /\ last' = CallArg("replace_source", id, "false", "readport_reserve", new)
             /\ UNCHANGED <<instr, pin, uses, parents, groups>>
        ELSE /\ groups' = IF rs_needs_readports(i) /\ i.group # 0
                          THEN [groups EXCEPT ![i.group].rpr = rp.rpr]
                          ELSE groups
             /\ instr' = [instr EXCEPT ![id].src = rs_new_src(i, old, new)]
             /\ uses' = IF process
                        THEN del_all(add_all(uses, {new} \cap Registers, id), {old}, id)
                        ELSE uses
             /\ last' = CallArg("replace_source", id,
                                IF process THEN "true" ELSE "false",
                                IF process THEN "none" ELSE "no_match", new)
             /\ UNCHANGED <<pin, parents>>

\* ------------------------------------------------------------------------
\* AluInstr::set_sources
\* ------------------------------------------------------------------------
\* (callers hand in as many operands as the instruction has)
SetSources(id, src) ==
  /\ id \in 1..Len(instr) /\ instr[id].live
  /\ Len(src) = Len(instr[id].src)
  /\ LET old_regs == Range(instr[id].src) \cap Registers
         new_regs == Range(src) \cap Registers
     IN uses' = add_all(del_all(uses, old_regs, id), new_regs, id)
  /\ instr' = [instr EXCEPT ![id].src = src]
  /\ last' = Call("set_sources", id, "void", "none")
  /\ UNCHANGED <<pin, parents, groups>>

\* ------------------------------------------------------------------------
\* AluInstr::replace_dest
\* ------------------------------------------------------------------------
\* a variant without the test of the number of uses
rd_reject_no_uses(i, new_dest, p, u) ==
  IF equal_to(i.dest, new_dest) THEN "same"
  ELSE IF p[new_dest] = "array" THEN "array"
  ELSE IF p[i.dest] = "chan" /\ chan(new_dest) # chan(i.dest) THEN "chan"
  ELSE "none"

\* which of the four early returns is taken, "none" if none
rd_reject(i, new_dest, p, u) ==
  IF equal_to(i.dest, new_dest) THEN "same"
  ELSE IF Cardinality(u[i.dest]) > 1 THEN "uses"
  ELSE IF p[new_dest] = "array" THEN "array"
  ELSE IF p[i.dest] = "chan" /\ chan(new_dest) # chan(i.dest) THEN "chan"
  ELSE "none"

\* a variant that leaves the pin alone
rd_new_pin_keep(i, new_dest, p) == p[new_dest]

\* pin of the new destination after a successful call
rd_new_pin(i, new_dest, p) ==
  IF p[i.dest] = "chan"
  THEN (IF p[new_dest] = "group" THEN "chgr" ELSE "chan")
  ELSE p[new_dest]

rd_new_flags(i, move_last) ==
  IF ~move_last THEN i.flags \ {"last_instr"} ELSE i.flags

\* a variant that never adds a slot
rd_grows_never(i, new_dest) == FALSE

\* lines 524-527: a cayman trans instruction moved into channel w
rd_grows(i, new_dest) ==
  has_alu_flag(i, "is_cayman_trans") /\ chan(new_dest) = 3 /\ i.slots < 4

\* the record of a replace_dest call: its arguments and its outcome
CallDest(id, ret, why, new_dest, move_last) ==
  [op |-> "replace_dest", id |-> id, ret |-> ret, why |-> why,
   arg |-> new_dest, move |-> move_last]

\* move_last: whether move_instr carries alu_last_instr
ReplaceDest(id, new_dest, move_last) ==
  /\ id \in 1..Len(instr) /\ instr[id].live
  /\ LET i == instr[id]
         why == IF i.dest = NULL THEN "null_dest" ELSE rd_reject(i, new_dest, pin, uses)
     IN IF why = "null_dest"
        THEN \* m_dest is dereferenced: the run crashes
             /\ last' = CallDest(id, "abort", why, new_dest, move_last)
             /\ UNCHANGED <<instr, pin, uses, parents, groups>>
        ELSE IF why # "none"
        THEN /\ last' = CallDest(id, "false", why, new_dest, move_last)
             /\ UNCHANGED <<instr, pin, uses, parents, groups>>
        ELSE /\ pin' = [pin EXCEPT ![new_dest] = rd_new_pin(i, new_dest, pin)]
             /\ \/ /\ instr' = [instr EXCEPT
                            ![id].dest = new_dest,
                            ![id].flags = rd_new_flags(i, move_last),
                            ![id].slots = IF rd_grows(i, new_dest) THEN 4 ELSE i.slots,
                            ![id].src = IF rd_grows(i, new_dest)
                                        THEN Append(i.src, i.src[1]) ELSE i.src]
                   /\ last' = CallDest(id, "true", "none", new_dest, move_last)
                \* assert(m_src.size() == 3) of a build with assertions
                \/ /\ rd_grows(i, new_dest) /\ Len(i.src) # 3
                   /\ instr' = [instr EXCEPT
                            ![id].dest = new_dest,
                            ![id].flags = rd_new_flags(i, move_last),
                            ![id].slots = 4]
                   /\ last' = CallDest(id, "abort", "assert", new_dest, move_last)
             /\ UNCHANGED <<uses, parents, groups>>

\* ------------------------------------------------------------------------
\* AluInstr::split
\* ------------------------------------------------------------------------
\* destination of the instruction of slot s
split_dst(o, s) == IF chan(o.dest) = s THEN o.dest ELSE dummy_dest(s)

\* pins after the destination and the register operands of slot s are pinned
split_pin_dst(o, s, p) ==
  LET dst == split_dst(o, s)
  IN IF p[dst] # "chgr"
     THEN [p EXCEPT ![dst] = IF p[dst] = "group" /\ chan(o.dest) = s
                             THEN "chgr" ELSE "chan"]
     ELSE p

split_pin_src(o, s, p) ==
  [v \in DOMAIN p |->
     IF as_register(v) /\ v \in Range(slot_src(o, s))
     THEN (IF p[v] \in {"free", "none"} THEN "chan"
           ELSE IF p[v] = "group" THEN "chgr" ELSE p[v])
     ELSE p[v]]

SrcModFlags == {"src0_neg", "src1_neg", "src2_neg", "src0_abs", "src1_abs"}

\* a variant that sets the write flag in every slot
split_flags_write_all(o, s, nflags) ==
  nflags
    \cup (IF s = 0 \/ ~has_alu_flag(o, "64bit_op") THEN o.flags \cap SrcModFlags ELSE {})
    \cup (o.flags \cap {"dst_clamp"})
    \cup {"write"}

\* a variant that copies the source modifiers to every slot of a 64-bit op
split_flags_mods_all(o, s, nflags) ==
  nflags
    \cup (o.flags \cap SrcModFlags)
    \cup (o.flags \cap {"dst_clamp"})
    \cup (IF s = chan(o.dest) THEN {"write"} ELSE {})

\* a variant that hands the last-instruction flag to the slot of the
\* destination channel
split_flags_last(o, s, nflags) ==
  nflags
    \cup (IF s = 0 \/ ~has_alu_flag(o, "64bit_op") THEN o.flags \cap SrcModFlags ELSE {})
    \cup (o.flags \cap {"dst_clamp"})
    \cup (IF s = chan(o.dest) THEN {"write"} \cup (o.flags \cap {"last_instr"}) ELSE {})

\* flags of the instruction of slot s
split_flags(o, s, nflags) ==
  nflags
    \cup (IF s = 0 \/ ~has_alu_flag(o, "64bit_op") THEN o.flags \cap SrcModFlags ELSE {})
    \cup (o.flags \cap {"dst_clamp"})
    \cup (IF s = chan(o.dest) THEN {"write"} ELSE {})

\* the loop over the slots; st carries the arena, the pins, the use and
\* parent lists, the new group and whether add_instruction failed
RECURSIVE split_loop(_, _, _)
split_loop(o, s, st) ==
  IF s >= o.slots \/ ~st.ok THEN st
  ELSE LET p1 == split_pin_dst(o, s, st.pin)
           p2 == split_pin_src(o, s, p1)
           id == Len(st.instr) + 1
           n0 == NewInstr(o.opcode, split_dst(o, s), slot_src(o, s), {}, 1)
           u1 == add_all(st.uses,
                         update_uses_srcs(n0.src, p2) \cup
                         update_uses_dest(n0.dest, n0.flags, p2), id)
           n1 == [n0 EXCEPT !.block = o.block, !.index = o.index,
                            !.flags = split_flags(o, s, n0.flags),
                            !.origin = "split"]
           par == add_all(st.parents, {o.dest}, id)
           a == add_instruction(st.group, id, n1)
           n2 == [n1 EXCEPT !.group = st.gid, !.bank_swizzle = a.bs]
       IN split_loop(o, s + 1,
                     [instr |-> Append(st.instr, n2), pin |-> p2, uses |-> u1,
                      parents |-> par, group |-> a.group, gid |-> st.gid,
                      ok |-> a.ok])

Split(id) ==
  /\ id \in 1..Len(instr) /\ instr[id].live
  /\ IF instr[id].slots = 1
     THEN /\ last' = Call("split", id, "nullptr", "none")
          /\ UNCHANGED <<instr, pin, uses, parents, groups>>
     ELSE IF instr[id].dest = NULL
     THEN \* m_dest is dereferenced: the run crashes
          /\ last' = Call("split", id, "abort", "null_dest")
          /\ UNCHANGED <<instr, pin, uses, parents, groups>>
     ELSE IF Len(instr[id].src) < nsrc(instr[id].opcode) * instr[id].slots
     THEN \* m_src is read past its end: the run crashes
          /\ last' = Call("split", id, "abort", "out_of_range")
          /\ UNCHANGED <<instr, pin, uses, parents, groups>>
     ELSE /\ Len(groups) < MaxGroups
          /\ LET o == instr[id]
                 gid == Len(groups) + 1
                 st == split_loop(o, 0,
                         [instr |-> instr, pin |-> pin, uses |-> uses,
                          parents |-> del_all(parents, {o.dest}, id),
                          group |-> NewGroup, gid |-> gid, ok |-> TRUE])
             IN IF ~st.ok
                THEN \* unreachable("Invalid group instruction")
                     /\ last' = Call("split", id, "abort", "add_instruction")
                     /\ UNCHANGED <<instr, pin, uses, parents, groups>>
                ELSE /\ instr' = [st.instr EXCEPT ![id].live = FALSE]
                     /\ pin' = st.pin
                     /\ uses' = del_all(st.uses, Range(o.src) \cap Registers, id)
                     /\ parents' = st.parents
                     /\ groups' = Append(groups, st.group)
                     /\ last' = Call("split", id, "group", "none")

\* ------------------------------------------------------------------------
\* Specification of the source operand operations: construction,
\* replace_source, set_sources on instructions inside and outside a group
\* ------------------------------------------------------------------------
UseOps == {"MOV", "ADD"}
UseDests == {NULL, "A1x"}
UseFlagSets == {{}, {"write"}}
UseSlots == {1, 2}
UseSrcVals == {"R1x", "A1x", "U1"}
UseSrcVals2 == {"R1x", "R5x"}
UseSrcs == [1..1 -> UseSrcVals] \cup [1..2 -> UseSrcVals] \cup [1..4 -> UseSrcVals2]
UseOld == {"R1x", "R3y", "A1x"}
UseNew == {"R1x", "R2x", "A2y"}
UseSetSrcs == {<<"A1x">>, <<"R5x">>, <<"A1x", "R5x">>, <<"R2x", "U1">>,
               <<"R1x", "R3y", "R5x", "R3y">>}

NextUses ==
  \/ /\ NumCtor < MaxCtor
     /\ \E op \in UseOps, d \in UseDests, src \in UseSrcs, f \in UseFlagSets, n \in UseSlots :
          Construct(op, d, src, f, n)
     /\ UNCHANGED io
  \/ /\ \E id \in 1..Len(instr) : GroupAdd(id)
     /\ UNCHANGED io
  \/ /\ \E id \in 1..Len(instr), old \in UseOld, new \in UseNew : ReplaceSource(id, old, new)
     /\ UNCHANGED io
  \/ /\ \E id \in 1..Len(instr), src \in UseSetSrcs : SetSources(id, src)
     /\ UNCHANGED io

Spec == Init /\ [][NextUses]_vars

\* ------------------------------------------------------------------------
\* Properties of the source operand operations
\* ------------------------------------------------------------------------
Live == {id \in 1..Len(instr) : instr[id].live}

\* registers an instruction holds as operand or as indirect address
HeldRegs(i) ==
  {r \in Registers :
     \/ \E k \in 1..Len(i.src) :
           \/ r = i.src[k]
           \/ /\ ValueTab[i.src[k]].kind \in {"array", "uniform"}
              /\ r = get_addr(i.src[k])
     \/ /\ i.dest # NULL /\ has_alu_flag(i, "write")
        /\ ValueTab[i.dest].kind = "array"
        /\ r = get_addr(i.dest)}

Holders(r) == {id \in Live : r \in HeldRegs(instr[id])}

\* C1: after any sequence of constructions, replace_source and set_sources
\* calls, uses() of every register is exactly the set of live instructions
\* holding it as operand or as indirect address.
C1_UsesExact == \A r \in Registers : uses[r] = Holders(r)

IsRejectedReplace(l) == l.op = "replace_source" /\ l.ret = "false"

\* C3: a replace_source call that returns false leaves the source sequence
\* of the instruction element for element as it was.
C3_RejectKeepsSources ==
  [][IsRejectedReplace(last') => instr'[last'.id].src = instr[last'.id].src]_vars

C3_Witness == IsRejectedReplace(last) /\ last.why = "addr"
C3_WitnessReadport ==
  IsRejectedReplace(last) /\ last.why \in {"readport", "readport_reserve"}
C3_WitnessOldArray == IsRejectedReplace(last) /\ last.why = "old_array"
C3_WitnessDestAddr == IsRejectedReplace(last) /\ last.why = "dest_addr"
C3_WitnessNoMatch == IsRejectedReplace(last) /\ last.why = "no_match"

\* C4: a replace_source call that returns false changes nothing at all:
\* sources, use lists and the read-port reservation of the parent group.
C4_RejectChangesNothing ==
  [][IsRejectedReplace(last') =>
       /\ instr' = instr /\ uses' = uses /\ parents' = parents
       /\ pin' = pin /\ groups' = groups]_vars

\* every slot, in order, fits under some bank swizzle on top of the
\* reservation of the slots before it
Placeable(i, old, new) == rs_readports(i, old, new, 0, {}).ok

\* C7: check_readport_validation returns true whenever every slot can be
\* placed under at least one of the six bank swizzles, and false only when
\* some slot fails under all six.
C7_ReadportValidationExact ==
  \A id \in Live : \A old \in UseOld, new \in UseNew :
     Len(instr[id].src) >= 3 =>
       (check_readport_validation(instr[id], old, new) = Placeable(instr[id], old, new))

\* ------------------------------------------------------------------------
\* Specification of the destination operations: construction, replace_dest
\* and split
\* ------------------------------------------------------------------------
Aborted == last.ret = "abort"

\* opcode and slot count, destination, flags and operands of the constructor
SplitShapes == {<<"MOV", 1>>, <<"SIN", 1>>, <<"SIN", 3>>, <<"DOT4", 2>>,
                <<"DOT4", 4>>, <<"MOV", 4>>}
SplitDests == {NULL, "R3y", "R4w", "R5x"}
SplitFlagSets == {{}, {"write"}, {"write", "last_instr"}, {"write", "is_cayman_trans"}}
SplitSrcVals == {"R1x", "R3y"}
SplitSrcs(n) ==
  IF n = 8 THEN {q \o q : q \in [1..4 -> SplitSrcVals]}
  ELSE IF n = 3 THEN {<<q[1], q[2], q[1]>> : q \in [1..2 -> SplitSrcVals]}
  ELSE [1..n -> SplitSrcVals]
SplitNewDests == {"R2x", "R4w", "A0x"}

NextSplit ==
  \/ /\ ~Aborted /\ NumCtor < MaxCtor
     /\ \E sh \in SplitShapes, d \in SplitDests, f \in SplitFlagSets :
         \E src \in SplitSrcs(nsrc(sh[1]) * sh[2]) :
            Construct(sh[1], d, src, f, sh[2])
     /\ UNCHANGED io
  \/ /\ ~Aborted
     /\ \E id \in 1..Len(instr), nd \in SplitNewDests, ml \in BOOLEAN :
           ReplaceDest(id, nd, ml)
     /\ UNCHANGED io
  \/ /\ ~Aborted
     /\ \E id \in 1..Len(instr) : Split(id)
     /\ UNCHANGED io

SpecSplit == Init /\ [][NextSplit]_vars

\* C2: the parents of a register are exactly the live instructions whose
\* destination it is and that carry the write flag.
C2_ParentsExact ==
  \A r \in Registers :
     parents[r] = {id \in Live : instr[id].dest = r /\ has_alu_flag(instr[id], "write")}

SplitDone == last.op = "split" /\ last.ret = "group"

\* C6: split() of a four-slot instruction, when it returns, yields a group
\* of exactly four single-slot instructions, instruction s holding the operands
\* [s*nsrc, (s+1)*nsrc) of the original, and exactly the one whose slot is
\* the channel of the original destination carries the write flag.
C6_Split4 ==
  (SplitDone /\ instr[last.id].slots = 4) =>
     LET o == instr[last.id]
         g == groups[Len(groups)]
         members == {g.slots[k] : k \in 1..Len(g.slots)} \ {0}
     IN /\ Cardinality(members) = 4
        /\ \A s \in 0..3 :
              /\ g.slots[s + 1] \in 1..Len(instr)
              /\ instr[g.slots[s + 1]].slots = 1
              /\ instr[g.slots[s + 1]].src = slot_src(o, s)
              /\ has_alu_flag(instr[g.slots[s + 1]], "write") <=> (s = chan(o.dest))
        /\ Cardinality({m \in members : has_alu_flag(instr[m], "write")}) = 1

C6_Witness == SplitDone /\ instr[last.id].slots = 4 /\ Len(instr[last.id].src) = 8

\* ------------------------------------------------------------------------
\* AluInstr::do_ready and the scheduler state it reads
\* ------------------------------------------------------------------------
\* Register::ready(block, index): every writer of the register that comes
\* before the position is scheduled; values that are no registers are ready
ready(v, block, index, st) ==
  as_register(v) =>
    \A p \in parents[v] :
       (st[p].block <= block /\ st[p].index < index) => st[p].scheduled

ready_required(i, st) == \A r \in i.required : st[r].scheduled

ready_sources(i, st) ==
  \A k \in 1..Len(i.src) :
     /\ as_register(i.src[k]) => ready(i.src[k], i.block, i.index, st)
     /\ (as_uniform(i.src[k]) /\ get_addr(i.src[k]) # NULL
           /\ as_register(get_addr(i.src[k])))
          => ready(get_addr(i.src[k]), i.block, i.index, st)

ready_array_dest(i, st) ==
  (pin[i.dest] = "array" /\ get_addr(i.dest) # NULL) =>
     /\ ready(get_addr(i.dest), i.block, i.index, st)
     /\ ready(i.dest, i.block, i.index - 1, st)

\* uses of the destination before the update are scheduled
ready_dest_uses(i, st) ==
  \A u \in uses[i.dest] :
     ~(st[u].block <= i.block /\ st[u].index < i.index /\ ~st[u].scheduled)

ready_extra(i, st) == \A r \in i.extra : ready(r, i.block, i.index, st)

\* a variant that does not look at the required instructions
do_ready_no_required(i, st) ==
  /\ ready_sources(i, st)
  /\ (i.dest # NULL /\ ~has_flag_ssa(i.dest)) =>
        (ready_array_dest(i, st) /\ ready_dest_uses(i, st))
  /\ ready_extra(i, st)

\* AluInstr::do_ready of instruction i in the program st
do_ready(i, st) ==
  /\ ready_required(i, st)
  /\ ready_sources(i, st)
  /\ (i.dest # NULL /\ ~has_flag_ssa(i.dest)) =>
        (ready_array_dest(i, st) /\ ready_dest_uses(i, st))
  /\ ready_extra(i, st)

\* a variant that marks a ready instruction as scheduled
DoReadyMarking(id) ==
  /\ id \in 1..Len(instr)
  /\ last' = Call("do_ready", id, IF do_ready(instr[id], instr) THEN "true" ELSE "false", "none")
  /\ instr' = [instr EXCEPT ![id].scheduled = do_ready(instr[id], instr)]
  /\ UNCHANGED <<pin, uses, parents, groups>>

\* a call of do_ready by the scheduler
DoReady(id) ==
  /\ id \in 1..Len(instr)
  /\ last' = Call("do_ready", id, IF do_ready(instr[id], instr) THEN "true" ELSE "false", "none")
  /\ UNCHANGED <<instr, pin, uses, parents, groups>>

\* Instr::set_scheduled, called by the scheduler
SetScheduled(id) ==
  /\ id \in 1..Len(instr) /\ ~instr[id].scheduled
  /\ instr' = [instr EXCEPT ![id].scheduled = TRUE]
  /\ last' = Call("set_scheduled", id, "void", "none")
  /\ UNCHANGED <<pin, uses, parents, groups>>

\* Instr::add_required_instr
AddRequired(id, req) ==
  /\ id \in 1..Len(instr) /\ req \in 1..Len(instr) /\ id # req
  /\ req \notin instr[id].required
  /\ instr' = [instr EXCEPT ![id].required = @ \cup {req}]
  /\ last' = Call("add_required_instr", id, "void", "none")
  /\ UNCHANGED <<pin, uses, parents, groups>>

AddExtraDependency(id, v) ==
  /\ id \in 1..Len(instr)
  /\ as_register(v) => v \notin instr[id].extra
  /\ instr' = [instr EXCEPT ![id].extra = IF as_register(v) THEN @ \cup {v} ELSE @]
  /\ last' = Call("add_extra_dependency", id, "void", "none")
  /\ UNCHANGED <<pin, uses, parents, groups>>

\* ------------------------------------------------------------------------
\* Specification of the readiness query: a program of two instructions at
\* positions (block, index), the scheduler marking instructions scheduled
\* ------------------------------------------------------------------------
ReadyOps == {"NOP", "MOV"}
ReadyDests == {NULL, "R3y", "A1x"}
ReadySrcs == {<<>>, <<"R3y">>, <<"U1">>}
ReadyFlagSets == {{}, {"write"}}
ReadyArgs ==
  {a \in ReadyOps \X ReadyDests \X ReadySrcs \X ReadyFlagSets :
     ~ctor_throws(a[1], a[2], a[3], a[4], 1)}
ReadyBlocks == 0..1
ReadyIndices == 0..(MaxIndex - 1)
ReadyExtra == {"R3y"}

\* Instr::set_blockid
set_blockid(i, b, x) == [i EXCEPT !.block = b, !.index = x]

InitReady ==
  /\ pin = [v \in Values |-> ValueTab[v].pin]
  /\ groups = <<>>
  /\ text = <<>>
  /\ s_alu_map_by_name = {}
  /\ s_lds_map_by_name = {}
  /\ NoDevice
  /\ last = Call("init", 0, "none", "none")
  /\ \E a1 \in ReadyArgs, a2 \in ReadyArgs :
     \E b1 \in ReadyBlocks, b2 \in ReadyBlocks, x1 \in ReadyIndices, x2 \in ReadyIndices :
       LET i1 == set_blockid(NewInstr(a1[1], a1[2], a1[3], a1[4], 1), b1, x1)
           i2 == set_blockid(NewInstr(a2[1], a2[2], a2[3], a2[4], 1), b2, x2)
           none == [v \in Values |-> {}]
       IN /\ instr = <<i1, i2>>
          /\ uses = add_all(add_all(none, ctor_uses(i1), 1), ctor_uses(i2), 2)
          /\ parents = add_all(add_all(none, ctor_parents(i1), 1), ctor_parents(i2), 2)

NextReady ==
  \/ /\ \E id \in 1..Len(instr) : SetScheduled(id)
     /\ UNCHANGED io
  \/ /\ \E id \in 1..Len(instr), req \in 1..Len(instr) : req < id /\ AddRequired(id, req)
     /\ UNCHANGED io
  \/ /\ \E id \in 1..Len(instr), v \in ReadyExtra : AddExtraDependency(id, v)
     /\ UNCHANGED io
  \/ /\ \E id \in 1..Len(instr) : DoReady(id)
     /\ UNCHANGED io

SpecReady == InitReady /\ [][NextReady]_vars

ReadyCalled == last.op = "do_ready"

\* C8: do_ready() is false whenever a required instruction is not
\* scheduled, and true for an instruction without sources, destination,
\* required instructions and extra dependencies.
C8_ReadyRequired ==
  ReadyCalled =>
    LET i == instr[last.id]
    IN /\ (\E r \in i.required : ~instr[r].scheduled) => last.ret = "false"
       /\ (i.src = <<>> /\ i.dest = NULL /\ i.required = {} /\ i.extra = {})
             => last.ret = "true"

C8_Witness ==
  /\ ReadyCalled /\ last.ret = "false"
  /\ \E r \in instr[last.id].required : ~instr[r].scheduled
  /\ ready_sources(instr[last.id], instr)
  /\ instr[last.id].dest = NULL

\* u comes before i in program order
Precedes(u, i) == u.block < i.block \/ (u.block = i.block /\ u.index < i.index)

\* C9: do_ready() is false whenever the destination is a non-SSA register
\* and an instruction using it that precedes this one in program order, in
\* the same or an earlier block, is not scheduled.
C9_WriteAfterRead ==
  ReadyCalled =>
    LET i == instr[last.id]
    IN (/\ i.dest # NULL /\ ~has_flag_ssa(i.dest)
        /\ \E u \in uses[i.dest] : Precedes(instr[u], i) /\ ~instr[u].scheduled)
         => last.ret = "false"

MaxLds == 1
\* instructions from_string may create in one behaviour
MaxParse == 2

swzchar == <<"x", "y", "z", "w">>

\* lds_ops: opcode -> (nsrc, name)
lds_ops ==
  [DS_OP_ADD |-> [nsrc |-> 2, name |-> "ADD"],
   DS_OP_READ_RET |-> [nsrc |-> 1, name |-> "READ_RET"]]

\* opcodes of alu_ops; the name of an opcode is what the model calls it
AluOps == {"NOP", "MOV", "SIN", "ADD", "DOT4", "INTERP_X", "MULADD"}

\* AluInstr::cf_map
cf_map == {"BREAK", "CONT", "ELSE_AFTER", "EXTENDED", "POP_AFTER", "POP2_AFTER", "PUSH_BEFORE"}

src_abs_flags == <<"src0_abs", "src1_abs">>
src_neg_flags == <<"src0_neg", "src1_neg", "src2_neg">>

\* one source of do_print: k is the index in the slot, n the index in m_src
\* (both 0-based)
print_src(i, k, n) ==
  LET neg == has_alu_flag(i, src_neg_flags[k + 1])
      abs == n < 2 /\ has_alu_flag(i, src_abs_flags[k + 1])
  IN (IF neg THEN <<"-">> ELSE <<>>)
       \o (IF abs THEN <<"|">> ELSE <<>>)
       \o <<i.src[n + 1]>>
       \o (IF abs THEN <<"|">> ELSE <<>>)

\* the tokens before the sources
print_head(i) ==
  IF has_alu_flag(i, "is_lds")
  THEN << <<"LDS">>, <<lds_ops[i.lds_opcode].name>>, <<"__.", "x">>, <<":">> >>
  ELSE LET name == <<i.opcode>>
           clamp == has_alu_flag(i, "dst_clamp")
       IN IF i.dest # NULL
          THEN <<name>>
                 \o (IF clamp THEN << <<"CLAMP">> >> ELSE <<>>)
                 \o << IF has_alu_flag(i, "write")
                       THEN <<i.dest>>
                       ELSE <<"__.", swzchar[chan(i.dest) + 1]>>
                              \o (IF pin[i.dest] # "none" THEN <<"@", pin[i.dest]>> ELSE <<>>) >>
                 \o << <<":">> >>
          ELSE (IF clamp
                THEN <<name, <<"CLAMP", "__.", swzchar[i.fallback_chan + 1]>> >>
                ELSE << name \o <<"__.", swzchar[i.fallback_chan + 1]>> >>)
                 \o << <<":">> >>

\* the sources of the slots s.. of do_print
RECURSIVE print_slots(_, _, _)
print_slots(i, s, n) ==
  IF s >= i.slots THEN <<>>
  ELSE (IF s > 0 THEN << <<"+">> >> ELSE <<>>)
         \o [k \in 1..n |-> print_src(i, k - 1, s * n + k - 1)]
         \o print_slots(i, s + 1, n)

print_flags(i) ==
  <<"{">>
    \o (IF has_alu_flag(i, "write") THEN <<"W">> ELSE <<>>)
    \o (IF has_alu_flag(i, "last_instr") THEN <<"L">> ELSE <<>>)
    \o (IF has_alu_flag(i, "update_exec") THEN <<"E">> ELSE <<>>)
    \o (IF has_alu_flag(i, "update_pred") THEN <<"P">> ELSE <<>>)
    \o <<"}">>

\* AluInstr::do_print
do_print(i) ==
  LET n_source_per_slot ==
        IF has_alu_flag(i, "is_lds") THEN Len(i.src) ELSE nsrc(i.opcode)
  IN << <<"ALU">> >>
       \o print_head(i)
       \o print_slots(i, 0, n_source_per_slot)
       \o <<print_flags(i)>>
       \o (IF i.bank_swizzle \in Range(BankSwizzles) THEN << <<i.bank_swizzle>> >> ELSE <<>>)
       \o (IF i.cf_type \in cf_map THEN << <<i.cf_type>> >> ELSE <<>>)


\* ValueFactory::src_from_string: the value of a printed value, NULL for
\* anything else
src_from_string(tok) ==
  IF Len(tok) = 1 /\ tok[1] \in Values THEN tok[1] ELSE NULL

swz_index(c) == CHOOSE k \in 0..3 : swzchar[k + 1] = c

\* ValueFactory::dest_from_string: the register of a printed register, a
\* register of the channel for "__.c", NULL (the factory's assertion) for
\* anything else
dest_from_string(tok) ==
  IF Len(tok) = 1 /\ tok[1] \in Registers THEN tok[1]
  ELSE IF Len(tok) >= 2 /\ tok[1] = "__." /\ tok[2] \in Range(swzchar)
       THEN dummy_dest(swz_index(tok[2]))
       ELSE NULL

\* the result of from_string when it does not return an instruction
fs_abort(why, memo) == [ok |-> FALSE, why |-> why, memo |-> memo]

\* opcode lookup (lines 902-942): the descriptor and the memo table
\* s_alu_map_by_name afterwards; nsrc = -1 when the name is unknown
fs_lookup(is_lds, opstr, alu_map, lds_map) ==
  LET write(d) == {e \in alu_map : e.name # opstr} \cup {d} IN
  IF is_lds
  THEN IF \E e \in lds_map : e.name = opstr
       THEN [d |-> CHOOSE e \in lds_map : e.name = opstr, memo |-> alu_map]
       ELSE IF \E o \in DOMAIN lds_ops : <<lds_ops[o].name>> = opstr
            THEN LET o == CHOOSE o \in DOMAIN lds_ops : <<lds_ops[o].name>> = opstr
                     d == [name |-> opstr, kind |-> "lds", op |-> o, nsrc |-> lds_ops[o].nsrc]
                 IN [d |-> d, memo |-> write(d)]
            ELSE [d |-> [name |-> opstr, kind |-> "none", op |-> NULL, nsrc |-> -1],
                  memo |-> alu_map]
  ELSE IF \E e \in alu_map : e.name = opstr
       THEN [d |-> CHOOSE e \in alu_map : e.name = opstr, memo |-> alu_map]
       ELSE IF \E o \in AluOps : <<o>> = opstr
            THEN LET o == CHOOSE o \in AluOps : <<o>> = opstr
                     d == [name |-> opstr, kind |-> "alu", op |-> o, nsrc |-> nsrc(o)]
                 IN [d |-> d, memo |-> write(d)]
            ELSE [d |-> [name |-> opstr, kind |-> "none", op |-> NULL, nsrc |-> -1],
                  memo |-> alu_map]

\* one source string (lines 950-975): the flags and the value
fs_source(tok, i, slots, flags) ==
  LET neg == tok[1] = "-"
      t1 == IF neg THEN Tail(tok) ELSE tok
      abs == t1 # <<>> /\ t1[1] = "|"
      t2 == IF abs THEN SubSeq(t1, 2, Len(t1) - 1) ELSE t1
      bad == \/ neg /\ (i > 2 \/ (slots > 0 /\ src_neg_flags[i + 1] \notin flags))
             \/ abs /\ (i > 1 \/ t1[Len(t1)] # "|"
                              \/ (slots > 0 /\ src_abs_flags[i + 1] \notin flags))
             \/ t2 = <<>>
  IN IF bad \/ src_from_string(t2) = NULL
     THEN [ok |-> FALSE, flags |-> flags, src |-> NULL]
     ELSE [ok |-> TRUE,
           flags |-> flags \cup (IF neg THEN {src_neg_flags[i + 1]} ELSE {})
                           \cup (IF abs THEN {src_abs_flags[i + 1]} ELSE {}),
           src |-> src_from_string(t2)]

\* the loop over the slots (lines 947-978); p is the position of t, i the
\* source index in the slot
RECURSIVE fs_sources(_, _, _, _, _, _, _)
fs_sources(t, p, n, i, slots, srcs, flags) ==
  IF i < n
  THEN IF p > Len(t) THEN [ok |-> FALSE, p |-> p, slots |-> slots, srcs |-> srcs, flags |-> flags]
       ELSE LET r == fs_source(t[p], i, slots, flags)
            IN IF ~r.ok
               THEN [ok |-> FALSE, p |-> p, slots |-> slots, srcs |-> srcs, flags |-> flags]
               ELSE fs_sources(t, p + 1, n, i + 1, slots, Append(srcs, r.src), r.flags)
  ELSE IF p <= Len(t) /\ t[p] = <<"+">>
       THEN fs_sources(t, p + 1, n, 0, slots + 1, srcs, flags)
       ELSE [ok |-> TRUE, p |-> p, slots |-> slots + 1, srcs |-> srcs, flags |-> flags]

\* a "{...}" token (lines 986-1009)
fs_flag_token(tok) ==
  LET close == IF \E k \in 2..Len(tok) : tok[k] = "}"
               THEN CHOOSE k \in 2..Len(tok) : tok[k] = "}" /\ \A j \in 2..(k - 1) : tok[j] # "}"
               ELSE Len(tok) + 1
      has(c) == \E k \in 2..(close - 1) : tok[k] = c
  IN (IF has("L") THEN {"last_instr"} ELSE {})
       \cup (IF has("W") THEN {"write"} ELSE {})
       \cup (IF has("E") THEN {"update_exec"} ELSE {})
       \cup (IF has("P") THEN {"update_pred"} ELSE {})

\* the first character of a token is 'V': the token is one of the six names,
\* or begins with the lexeme "V"
starts_with_V(tok) == tok[1] = "V" \/ tok[1] \in Range(BankSwizzles)

\* a variant of the loop below that skips a token it does not know
RECURSIVE fs_tail_skip_unknown(_, _, _)
fs_tail_skip_unknown(t, p, acc) ==
  IF p > Len(t) THEN acc
  ELSE LET tok == t[p] IN
       IF tok[1] = "{"
       THEN fs_tail_skip_unknown(t, p + 1, [acc EXCEPT !.flags = @ \cup fs_flag_token(tok)])
       ELSE IF Len(tok) = 1 /\ tok[1] \in Range(BankSwizzles)
       THEN fs_tail_skip_unknown(t, p + 1, [acc EXCEPT !.bank_swizzle = tok[1]])
       ELSE IF Len(tok) = 1 /\ tok[1] \in cf_map
       THEN fs_tail_skip_unknown(t, p + 1, [acc EXCEPT !.cf_type = tok[1]])
       ELSE fs_tail_skip_unknown(t, p + 1, acc)

\* the tokens after the sources (lines 983-1044): the switch on the first
\* character of the token
RECURSIVE fs_tail(_, _, _)
fs_tail(t, p, acc) ==
  IF p > Len(t) THEN acc
  ELSE LET tok == t[p] IN
       IF tok[1] = "{"
       THEN fs_tail(t, p + 1, [acc EXCEPT !.flags = @ \cup fs_flag_token(tok)])
       ELSE IF starts_with_V(tok)
       THEN IF Len(tok) = 1 /\ tok[1] \in Range(BankSwizzles)
            THEN fs_tail(t, p + 1, [acc EXCEPT !.bank_swizzle = tok[1]])
            ELSE [acc EXCEPT !.ok = FALSE, !.why = "unknown_bankswizzle"]
       ELSE IF Len(tok) = 1 /\ tok[1] \in cf_map
       THEN fs_tail(t, p + 1, [acc EXCEPT !.cf_type = tok[1]])
       ELSE [acc EXCEPT !.ok = FALSE, !.why = "unknown_token"]


\* the instruction of the LDS constructors
NewLdsInstr(op, src, flags) ==
  [NewInstr("op_invalid", NULL, <<>>, {}, 1)
     EXCEPT !.src = src, !.flags = flags \cup {"is_lds"},
            !.lds_opcode = op, !.origin = "lds_ctor"]

\* AluInstr::from_string on the tokens t that follow "ALU".  pun is the
\* opcode a descriptor written by the LDS branch has when the regular
\* branch reads its alu_opcode (the two share a union), NULL when the bits
\* name no opcode.
from_string(t, alu_map, lds_map, pun) ==
  LET is_lds == t[1] = <<"LDS">>
      p0 == IF is_lds THEN 2 ELSE 1
  IN IF Len(t) < p0 + 2 THEN fs_abort("past_end", alu_map)
     ELSE
     LET opstr == t[p0]
         clamp == t[p0 + 1] = <<"CLAMP">>
         pc == IF clamp THEN p0 + 3 ELSE p0 + 2
     IN IF Len(t) < pc THEN fs_abort("past_end", alu_map)
        ELSE
        LET deststr == t[pc - 1]
            flags0 == IF clamp THEN {"dst_clamp"} ELSE {}
            look == fs_lookup(is_lds, opstr, alu_map, lds_map)
            d == look.d
        IN IF t[pc] # <<":">> THEN fs_abort("no_colon", alu_map)
           ELSE IF d.nsrc = -1 THEN fs_abort("unknown_opcode", look.memo)
           ELSE
           LET ss == fs_sources(t, pc + 1, d.nsrc, 0, 0, <<>>, flags0)
               tl == fs_tail(t, ss.p, [ok |-> TRUE, why |-> "none", flags |-> ss.flags,
                                       bank_swizzle |-> alu_vec_unknown, cf_type |-> cf_alu])
               dest == IF deststr # <<"(null)">> THEN dest_from_string(deststr) ELSE NULL
               opcode == IF d.kind = "alu" THEN d.op ELSE pun
           IN IF ~ss.ok THEN fs_abort("source", look.memo)
              ELSE IF ~tl.ok THEN fs_abort(tl.why, look.memo)
              ELSE IF deststr # <<"(null)">> /\ dest = NULL THEN fs_abort("dest", look.memo)
              ELSE IF is_lds
              THEN [ok |-> TRUE, why |-> "none", memo |-> look.memo,
                    instr |-> [NewLdsInstr(IF d.kind = "lds" THEN d.op ELSE NULL, ss.srcs, tl.flags)
                                 EXCEPT !.bank_swizzle = tl.bank_swizzle,
                                        !.cf_type = tl.cf_type, !.origin = "parse"]]
              ELSE IF opcode = NULL THEN fs_abort("bad_opcode", look.memo)
              ELSE IF ctor_throws(opcode, dest, ss.srcs, tl.flags, ss.slots)
                   THEN fs_abort("throw", look.memo)
              ELSE [ok |-> TRUE, why |-> "none", memo |-> look.memo,
                    instr |-> [NewInstr(opcode, dest, ss.srcs, tl.flags, ss.slots)
                                 EXCEPT !.bank_swizzle = tl.bank_swizzle,
                                        !.cf_type = tl.cf_type, !.origin = "parse"]]

\* AluInstr::is_equal_to; a is *this
is_equal_to(a, lhs) ==
  /\ lhs.opcode = a.opcode /\ lhs.bank_swizzle = a.bank_swizzle
  /\ lhs.cf_type = a.cf_type /\ lhs.flags = a.flags
  /\ IF a.dest # NULL
     THEN /\ lhs.dest # NULL
          /\ IF has_alu_flag(a, "write")
             THEN equal_to(a.dest, lhs.dest)
             ELSE chan(a.dest) = chan(lhs.dest)
     ELSE lhs.dest = NULL
  /\ Len(a.src) = Len(lhs.src)
  /\ \A k \in 1..Len(a.src) : equal_to(a.src[k], lhs.src[k])

NumLds == Cardinality({k \in 1..Len(instr) : instr[k].origin = "lds_ctor"})
NumParse == Cardinality({k \in 1..Len(instr) : instr[k].origin = "parse"})

\* AluInstr(ESDOp op, src0, src1, address)
ConstructLds(op, src0, src1, address) ==
  LET src == <<address>> \o (IF src0 # NULL
                             THEN <<src0>> \o (IF src1 # NULL THEN <<src1>> ELSE <<>>)
                             ELSE <<>>)
      i == NewLdsInstr(op, src, {})
      id == Len(instr) + 1
  IN /\ instr' = Append(instr, i)
     /\ uses' = add_all(uses, ctor_uses(i), id)
     /\ parents' = parents
     /\ last' = Call("lds_ctor", id, "ok", "none")
     /\ UNCHANGED <<pin, groups>>

\* AluInstr(ESDOp op, const SrcValues& src, flags)
ConstructLdsList(op, src, flags) ==
  LET i == NewLdsInstr(op, src, flags)
      id == Len(instr) + 1
  IN /\ instr' = Append(instr, i)
     /\ uses' = add_all(uses, ctor_uses(i), id)
     /\ parents' = parents
     /\ last' = Call("lds_ctor", id, "ok", "none")
     /\ UNCHANGED <<pin, groups>>

\* AluInstr(EAluOp opcode, int chan)
ConstructChan(op, c) ==
  IF ctor_throws(op, NULL, <<>>, {}, 1)
  THEN /\ last' = Call("ctor", 0, "throw", ctor_message(op, <<>>, 1))
       /\ UNCHANGED <<instr, pin, uses, parents, groups>>
  ELSE /\ instr' = Append(instr, [NewInstr(op, NULL, <<>>, {}, 1) EXCEPT !.fallback_chan = c])
       /\ last' = Call("ctor", Len(instr) + 1, "ok", "none")
       /\ UNCHANGED <<pin, uses, parents, groups>>

\* AluInstr::set_bank_swizzle
SetBankSwizzle(id, bs) ==
  /\ instr[id].live /\ instr[id].bank_swizzle # bs
  /\ instr' = [instr EXCEPT ![id].bank_swizzle = bs]
  /\ last' = Call("set_bank_swizzle", id, "void", "none")
  /\ UNCHANGED <<pin, uses, parents, groups>>

\* AluInstr::set_cf_type
SetCfType(id, cf) ==
  /\ instr[id].live /\ instr[id].cf_type # cf
  /\ instr' = [instr EXCEPT ![id].cf_type = cf]
  /\ last' = Call("set_cf_type", id, "void", "none")
  /\ UNCHANGED <<pin, uses, parents, groups>>

\* do_print of instruction id into the line
DoPrint(id) ==
  /\ instr[id].live
  /\ text' = do_print(instr[id])
  /\ last' = Call("do_print", id, "void", "none")
  /\ UNCHANGED <<instr, pin, uses, parents, groups, s_alu_map_by_name, s_lds_map_by_name, pvr>>

\* the line read back: the caller takes the leading "ALU" and hands the
\* rest to from_string, without a group
FromString(pun) ==
  /\ text # <<>> /\ Head(text) = <<"ALU">>
  /\ LET r == from_string(Tail(text), s_alu_map_by_name, s_lds_map_by_name, pun)
         id == Len(instr) + 1
     IN /\ s_alu_map_by_name' = r.memo
        /\ s_lds_map_by_name' = s_lds_map_by_name
        /\ text' = text
        /\ UNCHANGED pvr
        /\ IF r.ok
           THEN /\ instr' = Append(instr, r.instr)
                /\ uses' = add_all(uses, ctor_uses(r.instr), id)
                /\ parents' = add_all(parents, ctor_parents(r.instr), id)
                /\ last' = Call("from_string", id, "instr", "none")
           ELSE /\ last' = Call("from_string", 0, "abort", r.why)
                /\ UNCHANGED <<instr, uses, parents>>
        /\ UNCHANGED <<pin, groups>>


\* ------------------------------------------------------------------------
\* Specification of the text form: instructions from the public
\* constructors, with any bank swizzle and CF type, printed and read back
\* ------------------------------------------------------------------------
TextShapes == {<<"NOP", 1>>, <<"MOV", 1>>, <<"MOV", 2>>, <<"ADD", 1>>, <<"MULADD", 1>>}
TextDests == {NULL, "R1x"}
TextFlagSets ==
  {{}, {"write"}, {"dst_clamp"}, {"write", "dst_clamp", "last_instr"},
   {"write", "src0_abs", "src1_neg"}, {"write", "src2_neg"},
   {"write", "update_exec", "update_pred"}, {"write", "is_trans"}}
TextSrcs(n) == {[k \in 1..n |-> IF k = 2 THEN "L0" ELSE "R1x"]}
TextSwizzles == {"VEC_210"}
TextCfTypes == {"PUSH_BEFORE"}
TextLdsOps == {"DS_OP_ADD"}
TextLdsSrcs == {<<"R1x">>, <<"R1x", "L0">>}
TextChans == {2}
\* opcodes the bits of an LDS opcode may name
TextPuns == {"MOV", NULL}

\* the instructions are built and set up first, then printed and read back
NextText ==
  \/ /\ ~Aborted /\ text = <<>> /\ NumCtor < MaxCtor
     /\ \E sh \in TextShapes, d \in TextDests, f \in TextFlagSets :
         \E src \in TextSrcs(nsrc(sh[1]) * sh[2]) :
            Construct(sh[1], d, src, f, sh[2])
     /\ UNCHANGED io
  \/ /\ ~Aborted /\ text = <<>> /\ NumCtor < MaxCtor
     /\ \E op \in {"NOP", "MOV"}, c \in TextChans : ConstructChan(op, c)
     /\ UNCHANGED io
  \/ /\ ~Aborted /\ text = <<>> /\ NumLds < MaxLds
     /\ \E op \in TextLdsOps, s0 \in {NULL, "L0"} : ConstructLds(op, s0, NULL, "R1x")
     /\ UNCHANGED io
  \/ /\ ~Aborted /\ text = <<>> /\ NumLds < MaxLds
     /\ \E op \in TextLdsOps, src \in TextLdsSrcs, f \in {{"src0_neg"}, {"update_pred"}} :
          ConstructLdsList(op, src, f)
     /\ UNCHANGED io
  \/ /\ ~Aborted /\ text = <<>>
     /\ \E id \in 1..Len(instr), bs \in TextSwizzles : SetBankSwizzle(id, bs)
     /\ UNCHANGED io
  \/ /\ ~Aborted /\ text = <<>>
     /\ \E id \in 1..Len(instr), cf \in TextCfTypes : SetCfType(id, cf)
     /\ UNCHANGED io
  \/ /\ ~Aborted
     /\ \E id \in 1..Len(instr) : DoPrint(id)
  \/ /\ ~Aborted /\ NumParse < MaxParse
     /\ \E pun \in TextPuns : FromString(pun)

SpecText == Init /\ [][NextText]_vars

\* C5: an instruction printed by do_print and read back by from_string
\* gives an instruction that is_equal_to the printed one.
C5_RoundTrip ==
  [][(last.op = "do_print" /\ last'.op = "from_string") =>
       /\ last'.ret = "instr"
       /\ is_equal_to(instr[last.id], instr'[last'.id])]_vars


\* ------------------------------------------------------------------------
\* Specification of the constructors of a regular instruction
\* ------------------------------------------------------------------------
\* AluInstr(EAluOp opcode): nsrc null pointers as sources; update_uses
\* dereferences them, so with nsrc > 0 the run crashes
ConstructOp(op) ==
  IF nsrc(op) > 0
  THEN /\ last' = Call("ctor", 0, "abort", "null_src")
       /\ UNCHANGED <<instr, pin, uses, parents, groups>>
  ELSE /\ instr' = Append(instr, NewInstr(op, NULL, <<>>, {}, 1))
       /\ last' = Call("ctor", Len(instr) + 1, "ok", "none")
       /\ UNCHANGED <<pin, uses, parents, groups>>

\* AluInstr(opcode, dest, src0, flags)
Construct1(op, dest, src0, flags) == Construct(op, dest, <<src0>>, flags, 1)

\* AluInstr(opcode, dest, src0, src1, flags)
Construct2(op, dest, src0, src1, flags) == Construct(op, dest, <<src0, src1>>, flags, 1)

\* AluInstr(opcode, dest, src0, src1, src2, flags)
Construct3(op, dest, src0, src1, src2, flags) ==
  Construct(op, dest, <<src0, src1, src2>>, flags, 1)

CtorOps == {"NOP", "MOV", "ADD", "MULADD"}
CtorDests == {NULL, "R1x", "A1x"}
CtorFlagSets == {{}, {"write"}, {"op3"}, {"write", "last_instr"}}
CtorSlots == {1, 2, 4}
CtorSrcVals == {"R1x", "L0"}
CtorSrcs == UNION {[1..n -> CtorSrcVals] : n \in 0..4}
CtorChans == {0, 3}

\* every call starts from the empty program, so each is seen on its own
NextCtor ==
  \/ /\ ~Aborted /\ NumCtor < MaxCtor
     /\ \E op \in CtorOps, d \in CtorDests, src \in CtorSrcs, f \in CtorFlagSets,
           n \in CtorSlots : Construct(op, d, src, f, n)
     /\ UNCHANGED io
  \/ /\ ~Aborted /\ NumCtor < MaxCtor
     /\ \E op \in CtorOps : ConstructOp(op)
     /\ UNCHANGED io
  \/ /\ ~Aborted /\ NumCtor < MaxCtor
     /\ \E op \in CtorOps, c \in CtorChans : ConstructChan(op, c)
     /\ UNCHANGED io
  \/ /\ ~Aborted /\ NumCtor < MaxCtor
     /\ \E op \in CtorOps, d \in CtorDests, f \in CtorFlagSets, s0 \in CtorSrcVals :
          Construct1(op, d, s0, f)
     /\ UNCHANGED io
  \/ /\ ~Aborted /\ NumCtor < MaxCtor
     /\ \E op \in CtorOps, d \in CtorDests, f \in CtorFlagSets,
           s0 \in CtorSrcVals, s1 \in CtorSrcVals : Construct2(op, d, s0, s1, f)
     /\ UNCHANGED io
  \/ /\ ~Aborted /\ NumCtor < MaxCtor
     /\ \E op \in CtorOps, d \in CtorDests, f \in CtorFlagSets,
           s0 \in CtorSrcVals, s1 \in CtorSrcVals, s2 \in CtorSrcVals :
          Construct3(op, d, s0, s1, s2, f)
     /\ UNCHANGED io

SpecCtor == Init /\ [][NextCtor]_vars

C11_WitnessThrow == last.op = "ctor" /\ last.ret = "throw" /\ last.why = "nsrc"


\* ------------------------------------------------------------------------
\* AluInstr::propagate_death
\* ------------------------------------------------------------------------
\* the interpolation opcodes of the switch
InterpOps == {"INTERP_X", "INTERP_XY", "INTERP_Z", "INTERP_ZW"}

\* the return value and whether the write flag is reset
pd_result(i, p) ==
  IF i.dest = NULL THEN "true"
  ELSE IF p[i.dest] \in {"group", "chan"} /\ i.opcode \in InterpOps THEN "reset_write"
  ELSE IF p[i.dest] = "array" THEN "false"
  ELSE IF has_alu_flag(i, "is_cayman_trans") THEN "false"
  ELSE "del_uses"

PropagateDeath(id) ==
  /\ id \in 1..Len(instr) /\ instr[id].live
  /\ LET i == instr[id]
         r == pd_result(i, pin)
     IN /\ instr' = IF r = "reset_write"
                    THEN [instr EXCEPT ![id].flags = @ \ {"write"}]
                    ELSE instr
        /\ uses' = IF r = "del_uses"
                   THEN del_all(uses, Range(i.src) \cap Registers, id)
                   ELSE uses
        /\ last' = Call("propagate_death", id,
                        IF r \in {"true", "del_uses"} THEN "true" ELSE "false", r)
        /\ UNCHANGED <<pin, parents, groups>>

\* ------------------------------------------------------------------------
\* Specification of the write flag: every way an instruction comes to be
\* and every operation that changes its flags or its destination
\* ------------------------------------------------------------------------
WriteShapes == {<<"MOV", 1>>, <<"MOV", 2>>, <<"INTERP_X", 1>>}
WriteDests == {NULL, "R1x", "R5x"}
WriteFlagSets == {{}, {"write"}}
WriteSrcs(n) == {[k \in 1..n |-> "R1x"]}
WriteLdsFlagSets == {{}, {"write"}}
WriteNewDests == {"R2x"}

NextWrite ==
  \/ /\ ~Aborted /\ text = <<>> /\ NumCtor < MaxCtor
     /\ \E sh \in WriteShapes, d \in WriteDests, f \in WriteFlagSets :
         \E src \in WriteSrcs(nsrc(sh[1]) * sh[2]) :
            Construct(sh[1], d, src, f, sh[2])
     /\ UNCHANGED io
  \/ /\ ~Aborted /\ text = <<>> /\ NumLds < MaxLds
     /\ ConstructLds("DS_OP_ADD", "L0", NULL, "R1x")
     /\ UNCHANGED io
  \/ /\ ~Aborted /\ text = <<>> /\ NumLds < MaxLds
     /\ \E f \in WriteLdsFlagSets : ConstructLdsList("DS_OP_ADD", <<"R1x", "L0">>, f)
     /\ UNCHANGED io
  \/ /\ ~Aborted
     /\ \E id \in 1..Len(instr), nd \in WriteNewDests :
           ReplaceDest(id, nd, FALSE)
     /\ UNCHANGED io
  \/ /\ ~Aborted
     /\ \E id \in 1..Len(instr) : Split(id)
     /\ UNCHANGED io
  \/ /\ ~Aborted
     /\ \E id \in 1..Len(instr) : PropagateDeath(id)
     /\ UNCHANGED io
  \/ /\ ~Aborted /\ text = <<>>
     /\ \E id \in 1..Len(instr) : DoPrint(id)
  \/ /\ ~Aborted /\ NumParse < MaxParse
     /\ FromString(NULL)

SpecWrite == Init /\ [][NextWrite]_vars

\* C12: in every reachable state, an instruction with the write flag has a
\* destination.
C12_WriteHasDest ==
  \A id \in 1..Len(instr) :
     (instr[id].live /\ has_alu_flag(instr[id], "write")) => instr[id].dest # NULL


\* ------------------------------------------------------------------------
\* AluInstr::can_copy_propagate, can_propagate_src, can_propagate_dest
\* ------------------------------------------------------------------------
can_copy_propagate(i) ==
  IF i.opcode # "MOV" THEN FALSE
  ELSE IF \/ has_alu_flag(i, "src0_abs") \/ has_alu_flag(i, "src0_neg")
          \/ has_alu_flag(i, "dst_clamp")
       THEN FALSE
  ELSE has_alu_flag(i, "write")

\* a variant that does not compare the channels of two channel-pinned
\* registers
can_propagate_src_any_chan(i, p) ==
  IF ~can_copy_propagate(i) THEN "false"
  ELSE IF ~as_register(i.src[1]) THEN "true"
  ELSE IF i.dest = NULL THEN "abort"
  ELSE IF ~has_flag_ssa(i.dest) THEN "false"
  ELSE IF p[i.dest] = "fully"
       THEN IF equal_to(i.dest, i.src[1]) THEN "true" ELSE "false"
  ELSE IF p[i.dest] = "chan"
       THEN IF p[i.src[1]] \in {"none", "chan"} THEN "true" ELSE "false"
  ELSE IF p[i.dest] \in {"none", "free"} THEN "true" ELSE "false"

\* the return value; "abort" is the failed assert(m_dest)
can_propagate_src(i, p) ==
  IF ~can_copy_propagate(i) THEN "false"
  ELSE IF ~as_register(i.src[1]) THEN "true"
  ELSE IF i.dest = NULL THEN "abort"
  ELSE IF ~has_flag_ssa(i.dest) THEN "false"
  ELSE IF p[i.dest] = "fully"
       THEN IF equal_to(i.dest, i.src[1]) THEN "true" ELSE "false"
  ELSE IF p[i.dest] = "chan"
       THEN IF \/ p[i.src[1]] = "none"
               \/ (p[i.src[1]] = "chan" /\ chan(i.src[1]) = chan(i.dest))
            THEN "true" ELSE "false"
  ELSE IF p[i.dest] \in {"none", "free"} THEN "true" ELSE "false"

\* a variant without the test of the SSA flag of the source
can_propagate_dest_no_ssa(i, p) ==
  IF ~can_copy_propagate(i) THEN "false"
  ELSE IF ~as_register(i.src[1]) THEN "false"
  ELSE IF i.dest = NULL THEN "abort"
  ELSE IF p[i.src[1]] = "fully" THEN "false"
  ELSE IF p[i.src[1]] = "chan"
       THEN IF \/ p[i.dest] \in {"none", "free"}
               \/ (p[i.dest] \in {"chan", "group"} /\ chan(i.src[1]) = chan(i.dest))
            THEN "true" ELSE "false"
  ELSE IF p[i.src[1]] \in {"none", "free"} THEN "true" ELSE "false"

can_propagate_dest(i, p) ==
  IF ~can_copy_propagate(i) THEN "false"
  ELSE IF ~as_register(i.src[1]) THEN "false"
  ELSE IF i.dest = NULL THEN "abort"
  ELSE IF p[i.src[1]] = "fully" THEN "false"
  ELSE IF ~has_flag_ssa(i.src[1]) THEN "false"
  ELSE IF p[i.src[1]] = "chan"
       THEN IF \/ p[i.dest] \in {"none", "free"}
               \/ (p[i.dest] \in {"chan", "group"} /\ chan(i.src[1]) = chan(i.dest))
            THEN "true" ELSE "false"
  ELSE IF p[i.src[1]] \in {"none", "free"} THEN "true" ELSE "false"

CanPropagateSrc(id) ==
  /\ id \in 1..Len(instr) /\ instr[id].live
  /\ last' = Call("can_propagate_src", id, can_propagate_src(instr[id], pin), "none")
  /\ UNCHANGED <<instr, pin, uses, parents, groups>>

CanPropagateDest(id) ==
  /\ id \in 1..Len(instr) /\ instr[id].live
  /\ last' = Call("can_propagate_dest", id, can_propagate_dest(instr[id], pin), "none")
  /\ UNCHANGED <<instr, pin, uses, parents, groups>>

\* ------------------------------------------------------------------------
\* Specification of copy propagation: the registers are created with any
\* pin, one instruction is built and queried
\* ------------------------------------------------------------------------
PropPins == {"none", "free", "chan", "group", "fully"}
PropOps == {"MOV", "SIN"}
PropDests == {"R1x", "R5x", "R4w", "R3y"}
PropSrcs == {"R1x", "R5x", "R4w", "R3y", "L0"}
PropFlagSets == {{}, {"write"}, {"write", "src0_abs"}, {"write", "src0_neg"},
                 {"write", "dst_clamp"}}

InitProp ==
  /\ instr = <<>>
  /\ \E a \in PropPins, b \in PropPins, c \in PropPins :
        pin = [v \in Values |->
                 CASE v = "R1x" -> a
                   [] v = "R5x" -> b
                   [] v = "R4w" -> c
                   [] OTHER -> ValueTab[v].pin]
  /\ uses = [v \in Values |-> {}]
  /\ parents = [v \in Values |-> {}]
  /\ groups = <<>>
  /\ last = Call("init", 0, "none", "none")
  /\ text = <<>>
  /\ s_alu_map_by_name = {}
  /\ s_lds_map_by_name = {}
  /\ NoDevice

NextProp ==
  \/ /\ NumCtor < MaxCtor
     /\ \E op \in PropOps, d \in PropDests, s0 \in PropSrcs, f \in PropFlagSets :
           Construct(op, d, <<s0>>, f, 1)
     /\ UNCHANGED io
  \/ /\ \E id \in 1..Len(instr) : CanPropagateSrc(id)
     /\ UNCHANGED io
  \/ /\ \E id \in 1..Len(instr) : CanPropagateDest(id)
     /\ UNCHANGED io

SpecProp == InitProp /\ [][NextProp]_vars

\* the instruction is a copy-propagatable move
IsCopyMove(i) ==
  /\ i.opcode = "MOV" /\ has_alu_flag(i, "write")
  /\ ~has_alu_flag(i, "src0_abs") /\ ~has_alu_flag(i, "src0_neg")
  /\ ~has_alu_flag(i, "dst_clamp")

\* C13: can_propagate_src returns true exactly when the instruction is a
\* copy-propagatable move and source 0 is not a register, or the
\* destination is SSA and its pin admits the source: fully pinned needs a
\* source equal to the destination, channel-pinned needs a source that is
\* unpinned or channel-pinned to the same channel, any other pin must be
\* none or free.
C13_PropagateSrc ==
  last.op = "can_propagate_src" =>
    LET i == instr[last.id]
        s == i.src[1]
        d == i.dest
        legal ==
          /\ IsCopyMove(i)
          /\ \/ ~as_register(s)
             \/ /\ has_flag_ssa(d)
                /\ pin[d] = "fully" => equal_to(s, d)
                /\ pin[d] = "chan" =>
                     (pin[s] = "none" \/ (pin[s] = "chan" /\ chan(s) = chan(d)))
                /\ pin[d] \notin {"fully", "chan"} => pin[d] \in {"none", "free"}
    IN /\ last.ret \in {"true", "false"}
       /\ last.ret = "true" <=> legal

C13_Witness ==
  /\ last.op = "can_propagate_src" /\ last.ret = "true"
  /\ pin[instr[last.id].dest] = "chan"
  /\ pin[instr[last.id].src[1]] = "chan"
  /\ instr[last.id].src[1] # instr[last.id].dest

C13_WitnessFalse ==
  /\ last.op = "can_propagate_src" /\ last.ret = "false"
  /\ IsCopyMove(instr[last.id])
  /\ pin[instr[last.id].dest] = "chan"
  /\ pin[instr[last.id].src[1]] = "chan"

C13_WitnessFully ==
  /\ last.op = "can_propagate_src" /\ last.ret = "true"
  /\ pin[instr[last.id].dest] = "fully"

\* C14: can_propagate_dest returns false for an instruction that is not a
\* copy-propagatable move; for one whose source 0 is a register it returns
\* false if the source is fully pinned or not SSA, for a channel-pinned
\* source true exactly when the destination pin is none or free, or chan or
\* group with the channel of the source, and otherwise true exactly when
\* the source pin is none or free.
C14_PropagateDest ==
  last.op = "can_propagate_dest" =>
    LET i == instr[last.id]
        s == i.src[1]
        d == i.dest
    IN /\ ~IsCopyMove(i) => last.ret = "false"
       /\ (IsCopyMove(i) /\ as_register(s)) =>
            /\ last.ret \in {"true", "false"}
            /\ (pin[s] = "fully" \/ ~has_flag_ssa(s)) => last.ret = "false"
            /\ (pin[s] # "fully" /\ has_flag_ssa(s) /\ pin[s] = "chan") =>
                 (last.ret = "true" <=>
                    \/ pin[d] \in {"none", "free"}
                    \/ (pin[d] \in {"chan", "group"} /\ chan(d) = chan(s)))
            /\ (pin[s] # "fully" /\ has_flag_ssa(s) /\ pin[s] # "chan") =>
                 (last.ret = "true" <=> pin[s] \in {"none", "free"})

C14_Witness ==
  /\ last.op = "can_propagate_dest" /\ last.ret = "true"
  /\ pin[instr[last.id].src[1]] = "chan"
  /\ pin[instr[last.id].dest] = "group"

C14_WitnessFalse ==
  /\ last.op = "can_propagate_dest" /\ last.ret = "false"
  /\ IsCopyMove(instr[last.id])
  /\ instr[last.id].src[1] = "R3y"


\* C15 as stated: replace_source on an instruction with at most two
\* operands in total makes no read-port check, in a group or not: it does
\* not return false for the read ports and it leaves the read-port
\* reservation of the instruction's group alone.
C15_SmallSkipsReadports ==
  [][(last'.op = "replace_source" /\ last'.id \in 1..Len(instr)
        /\ nsrc(instr[last'.id].opcode) * instr[last'.id].slots <= 2) =>
       /\ last'.why \notin {"readport", "readport_reserve"}
       /\ groups' = groups]_vars

\* C15 amended: replace_source on an instruction with at most two operands
\* in total that belongs to no group makes no read-port check: it does not
\* return false for the read ports and changes no reservation.
C15_SmallUngrouped ==
  [][(last'.op = "replace_source" /\ last'.id \in 1..Len(instr)
        /\ instr[last'.id].group = 0
        /\ nsrc(instr[last'.id].opcode) * instr[last'.id].slots <= 2) =>
       /\ last'.why \notin {"readport", "readport_reserve"}
       /\ groups' = groups]_vars

\* a two-slot instruction outside a group whose two operands share a
\* channel has a source replaced
C15_Witness ==
  /\ last.op = "replace_source" /\ last.ret = "true"
  /\ instr[last.id].group = 0
  /\ instr[last.id].slots = 2 /\ Len(instr[last.id].src) = 2
  /\ chan(instr[last.id].src[1]) = chan(instr[last.id].src[2])
  /\ sel(instr[last.id].src[1]) # sel(instr[last.id].src[2])

\* a two-operand instruction in a group is refused for the read ports
C15_GroupRefused ==
  /\ last.op = "replace_source" /\ last.why = "readport_reserve"
  /\ nsrc(instr[last.id].opcode) * instr[last.id].slots <= 2
  /\ instr[last.id].group # 0


\* ------------------------------------------------------------------------
\* Specification of replace_dest: instructions as the emitters build them
\* (a cayman trans instruction has one operand per slot and three slots),
\* an LDS instruction as a second user of a register
\* ------------------------------------------------------------------------
DestShapes == {<<"MOV", 1, {}>>, <<"MOV", 1, {"write"}>>,
               <<"MOV", 1, {"write", "last_instr"}>>,
               <<"ADD", 1, {"write"}>>,
               <<"SIN", 3, {"write", "is_cayman_trans"}>>,
               <<"SIN", 3, {"write", "last_instr", "is_cayman_trans"}>>}
DestDests == {NULL, "R1x", "R2x", "R5x", "D3"}
DestSrcVals == {"R1x", "R5x"}
DestSrcs(n) == {[k \in 1..n |-> v] : v \in DestSrcVals}
DestNewDests == {"R2x", "R4w", "A0x"}
DestLdsSrcs == {"R1x", "R5x", "L0"}

NextDest ==
  \/ /\ ~Aborted /\ NumCtor < MaxCtor
     /\ \E sh \in DestShapes, d \in DestDests :
         \E src \in DestSrcs(nsrc(sh[1]) * sh[2]) :
            Construct(sh[1], d, src, sh[3], sh[2])
     /\ UNCHANGED io
  \/ /\ ~Aborted /\ NumLds < MaxLds
     /\ \E s0 \in DestLdsSrcs : ConstructLds("DS_OP_ADD", s0, NULL, "R3y")
     /\ UNCHANGED io
  \/ /\ ~Aborted
     /\ \E id \in 1..Len(instr), nd \in DestNewDests, ml \in BOOLEAN :
           ReplaceDest(id, nd, ml)
     /\ UNCHANGED io

SpecDest == Init /\ [][NextDest]_vars

\* C16: replace_dest on an instruction with a destination returns false and
\* leaves destination, flags, slot count, sources and the pin of new_dest
\* as they were when new_dest equals the destination, the destination has
\* more than one use, new_dest is an array element, or the destination is
\* channel-pinned and new_dest is in another channel; in every other case
\* it returns true and new_dest is the destination.
C16_ReplaceDest ==
  [][(last'.op = "replace_dest" /\ instr[last'.id].dest # NULL) =>
       LET o == instr[last'.id]
           n == instr'[last'.id]
           nd == last'.arg
           refuse ==
             \/ equal_to(o.dest, nd)
             \/ Cardinality(uses[o.dest]) > 1
             \/ pin[nd] = "array"
             \/ (pin[o.dest] = "chan" /\ chan(nd) # chan(o.dest))
       IN IF refuse
          THEN /\ last'.ret = "false"
               /\ n.dest = o.dest /\ n.flags = o.flags
               /\ n.slots = o.slots /\ n.src = o.src
               /\ pin'[nd] = pin[nd]
          ELSE /\ last'.ret = "true"
               /\ n.dest = nd]_vars

C16_Witness ==
  /\ last.op = "replace_dest" /\ last.ret = "false" /\ last.why = "uses"

C16_WitnessChan ==
  /\ last.op = "replace_dest" /\ last.ret = "false" /\ last.why = "chan"

C16_WitnessArray ==
  /\ last.op = "replace_dest" /\ last.ret = "false" /\ last.why = "array"

C16_WitnessSame ==
  /\ last.op = "replace_dest" /\ last.ret = "false" /\ last.why = "same"

C16_WitnessTrue ==
  /\ last.op = "replace_dest" /\ last.ret = "true"
  /\ instr[last.id].dest = last.arg /\ pin[last.arg] = "chgr"

C16_WitnessGrown ==
  /\ last.op = "replace_dest" /\ last.ret = "true"
  /\ instr[last.id].slots = 4 /\ Len(instr[last.id].src) = 4


\* ------------------------------------------------------------------------
\* The last-instruction flag in split
\* ------------------------------------------------------------------------
\* the instructions the last split produced and the slot of each
SplitProduced ==
  {k \in 1..Len(instr) : instr[k].origin = "split" /\ instr[k].group = Len(groups)}

SplitSlot(k) == chan(instr[k].dest)

\* C17 as stated: after split() of an instruction that carries the
\* last-instruction flag, exactly one produced instruction carries the
\* flag, the one whose slot is the channel of the destination.
C17_LastFlagFollowsDest ==
  (SplitDone /\ has_alu_flag(instr[last.id], "last_instr")) =>
     /\ \A k \in SplitProduced :
           has_alu_flag(instr[k], "last_instr") <=>
              SplitSlot(k) = chan(instr[last.id].dest)
     /\ Cardinality({k \in SplitProduced : has_alu_flag(instr[k], "last_instr")}) = 1

\* C17 amended: after split() of an instruction that carries the
\* last-instruction flag, no produced instruction carries that flag; the
\* flag a produced instruction carries exactly when its slot is the channel
\* of the destination is the write flag.
C17_LastFlagDropped ==
  (SplitDone /\ has_alu_flag(instr[last.id], "last_instr")) =>
     \A k \in SplitProduced :
        /\ ~has_alu_flag(instr[k], "last_instr")
        /\ has_alu_flag(instr[k], "write") <=>
              SplitSlot(k) = chan(instr[last.id].dest)

C17_Witness ==
  /\ SplitDone /\ has_alu_flag(instr[last.id], "last_instr")
  /\ Cardinality(SplitProduced) = instr[last.id].slots
  /\ \E k \in SplitProduced : SplitSlot(k) = chan(instr[last.id].dest)


\* ------------------------------------------------------------------------
\* AluInstr::register_priority
\* ------------------------------------------------------------------------
\* the part of the destination
rp_dest(i, p) ==
  IF i.dest = NULL THEN 0
  ELSE IF has_flag_ssa(i.dest) /\ has_alu_flag(i, "write")
       THEN (IF p[i.dest] # "group" /\ p[i.dest] # "chgr" THEN 0 - 1 ELSE 0)
  ELSE 1

\* number of uses of r that are not scheduled
rp_pending(r, u, ins) == Cardinality({b \in u[r] : ~ins[b].scheduled})

\* the loop over m_src, from operand k on
RECURSIVE rp_srcs(_, _, _, _)
rp_srcs(i, k, u, ins) ==
  IF k > Len(i.src) THEN 0
  ELSE LET s == i.src[k]
       IN (IF as_register(s) /\ has_flag_ssa(s) /\ rp_pending(s, u, ins) = 1
           THEN 1 ELSE 0)
          + (IF as_uniform(s) THEN 1 ELSE 0)
          + rp_srcs(i, k + 1, u, ins)

register_priority(i, p, u, ins) ==
  IF has_alu_flag(i, "no_schedule_bias") THEN 0
  ELSE rp_dest(i, p) + rp_srcs(i, 1, u, ins)

RegisterPriority(id) ==
  /\ id \in 1..Len(instr) /\ instr[id].live
  /\ last' = CallArg("register_priority", id, "int", "none",
                     register_priority(instr[id], pin, uses, instr))
  /\ UNCHANGED <<instr, pin, uses, parents, groups>>

\* ------------------------------------------------------------------------
\* Specification of the priority: one instruction, an LDS instruction as a
\* second user of its sources, the scheduler marking instructions
\* ------------------------------------------------------------------------
PrioOps == {"MOV", "ADD"}
PrioDests == {NULL, "R1x", "R4w", "R3y"}
PrioFlagSets == {{}, {"write"}, {"write", "no_schedule_bias"}}
PrioSrcs(n) ==
  IF n = 1 THEN {<<"R5x">>, <<"U1">>, <<"R3y">>}
  ELSE {<<"R5x", "R5x">>, <<"R5x", "U1">>, <<"R2x", "L0">>, <<"U1", "U1">>}
PrioLdsSrcs == {"R5x", "L0"}
PrioGroupPins == {"group", "chgr"}

InitPrio ==
  /\ instr = <<>>
  /\ \E g \in PrioGroupPins :
        pin = [v \in Values |-> IF v = "R4w" THEN g ELSE ValueTab[v].pin]
  /\ uses = [v \in Values |-> {}]
  /\ parents = [v \in Values |-> {}]
  /\ groups = <<>>
  /\ last = Call("init", 0, "none", "none")
  /\ text = <<>>
  /\ s_alu_map_by_name = {}
  /\ s_lds_map_by_name = {}
  /\ NoDevice

NextPrio ==
  \/ /\ NumCtor < MaxCtor
     /\ \E op \in PrioOps, d \in PrioDests, f \in PrioFlagSets :
         \E src \in PrioSrcs(nsrc(op)) : Construct(op, d, src, f, 1)
     /\ UNCHANGED io
  \/ /\ NumLds < MaxLds
     /\ \E s0 \in PrioLdsSrcs : ConstructLds("DS_OP_ADD", s0, NULL, "R3y")
     /\ UNCHANGED io
  \/ /\ \E id \in 1..Len(instr) : SetScheduled(id)
     /\ UNCHANGED io
  \/ /\ \E id \in 1..Len(instr) : RegisterPriority(id)
     /\ UNCHANGED io

SpecPrio == InitPrio /\ [][NextPrio]_vars

\* the instruction is the only use of r that is not scheduled
OnlyPendingUse(id, r) == {b \in uses[r] : ~instr[b].scheduled} = {id}

\* number of operands from k on that are SSA registers with the instruction
\* as only pending use, plus the number of uniform operands
RECURSIVE PrioSources(_, _)
PrioSources(id, k) ==
  IF k > Len(instr[id].src) THEN 0
  ELSE LET s == instr[id].src[k]
       IN (IF as_register(s) /\ has_flag_ssa(s) /\ OnlyPendingUse(id, s) THEN 1 ELSE 0)
          + (IF as_uniform(s) THEN 1 ELSE 0)
          + PrioSources(id, k + 1)

\* the part of the destination: -1 for a written SSA destination that is
\* not pinned to a group, +1 for a destination that is not SSA, nothing
\* for any other SSA destination
PrioDest(id) ==
  LET i == instr[id]
  IN IF i.dest = NULL THEN 0
     ELSE IF has_flag_ssa(i.dest)
          THEN (IF has_alu_flag(i, "write") /\ pin[i.dest] \notin {"group", "chgr"}
                THEN 0 - 1 ELSE 0)
     ELSE 1

\* C18: register_priority of an instruction that is not scheduled yet is 0
\* with the no-scheduling-bias flag and otherwise the sum of the part of
\* the destination, one for each SSA source register whose only pending
\* use the instruction is, and one for each uniform source.
C18_RegisterPriority ==
  (last.op = "register_priority" /\ ~instr[last.id].scheduled) =>
     last.arg = IF has_alu_flag(instr[last.id], "no_schedule_bias") THEN 0
                ELSE PrioDest(last.id) + PrioSources(last.id, 1)

\* the same for instructions whose SSA destination carries the write flag
C18_WrittenOnly ==
  (/\ last.op = "register_priority" /\ ~instr[last.id].scheduled
   /\ (instr[last.id].dest # NULL /\ has_flag_ssa(instr[last.id].dest))
         => has_alu_flag(instr[last.id], "write")) =>
     last.arg = IF has_alu_flag(instr[last.id], "no_schedule_bias") THEN 0
                ELSE PrioDest(last.id) + PrioSources(last.id, 1)


\* ------------------------------------------------------------------------
\* emit_alu_op1, emit_alu_op2, emit_alu_op3
\* ------------------------------------------------------------------------
\* alu: [ncomp, mask, neg, abs, sat] stands for the nir_alu_instr: number of
\* components of the destination, write mask (set of components), negate
\* and abs of every source (0-based source k at index k + 1), saturate.

\* AluInstr::Op2Options
op2_opt_none == 0
op2_opt_reverse == 1
op2_opt_neg_src1 == 2

\* opts & bit, for a single bit
opt_and(opts, bit) == IF (opts \div bit) % 2 = 1 THEN bit ELSE 0

\* a ^ b on non-negative integers
RECURSIVE bit_xor(_, _)
bit_xor(a, b) ==
  IF a = 0 THEN b
  ELSE IF b = 0 THEN a
  ELSE (((a % 2) + (b % 2)) % 2) + 2 * bit_xor(a \div 2, b \div 2)

\* value_factory.dest(alu.dest, i, pin): the register of component i
vf_dest(i) == CASE i = 0 -> "R1x" [] i = 1 -> "R3y" [] i = 2 -> "R6z" [] OTHER -> "R4w"
\* value_factory.src(alu.src[k], i)
vf_src(k, i) == CASE k = 0 -> "R5x" [] k = 1 -> "R2x" [] OTHER -> "L0"

\* flags emit_alu_op1 sets after the constructor
emit_op1_flags(alu, flags) ==
  (IF "src0_abs" \in flags \/ alu.abs[1] THEN {"src0_abs"} ELSE {})
    \cup (IF alu.neg[1] # ("src0_neg" \in flags) THEN {"src0_neg"} ELSE {})
    \cup (IF "dst_clamp" \in flags \/ alu.sat THEN {"dst_clamp"} ELSE {})

\* the sources of emit_alu_op2 after the swap of op2_opt_reverse
emit_op2_order(opts) ==
  IF opt_and(opts, op2_opt_reverse) # 0 THEN <<1, 0>> ELSE <<0, 1>>

\* a variant that loses the abs modifier of the second source
emit_op2_flags_no_abs1(alu, opts) ==
  LET o == emit_op2_order(opts)
      src1_negate ==
        bit_xor(opt_and(opts, op2_opt_neg_src1), IF alu.neg[o[2] + 1] THEN 1 ELSE 0) # 0
  IN (IF alu.neg[o[1] + 1] THEN {"src0_neg"} ELSE {})
       \cup (IF alu.abs[o[1] + 1] THEN {"src0_abs"} ELSE {})
       \cup (IF src1_negate THEN {"src1_neg"} ELSE {})
       \cup (IF alu.sat THEN {"dst_clamp"} ELSE {})

\* flags emit_alu_op2 sets after the constructor
emit_op2_flags(alu, opts) ==
  LET o == emit_op2_order(opts)
      src1_negate ==
        bit_xor(opt_and(opts, op2_opt_neg_src1), IF alu.neg[o[2] + 1] THEN 1 ELSE 0) # 0
  IN (IF alu.neg[o[1] + 1] THEN {"src0_neg"} ELSE {})
       \cup (IF alu.abs[o[1] + 1] THEN {"src0_abs"} ELSE {})
       \cup (IF src1_negate THEN {"src1_neg"} ELSE {})
       \cup (IF alu.abs[o[2] + 1] THEN {"src1_abs"} ELSE {})
       \cup (IF alu.sat THEN {"dst_clamp"} ELSE {})

\* flags emit_alu_op3 sets after the constructor
emit_op3_flags(alu, src_shuffle) ==
  (IF alu.neg[src_shuffle[1] + 1] THEN {"src0_neg"} ELSE {})
    \cup (IF alu.neg[src_shuffle[2] + 1] THEN {"src1_neg"} ELSE {})
    \cup (IF alu.neg[src_shuffle[3] + 1] THEN {"src2_neg"} ELSE {})
    \cup (IF alu.sat THEN {"dst_clamp"} ELSE {})
    \cup {"write"}

\* the loop over the components: one instruction with the write flag for
\* every component of the write mask, registered with its operands and its
\* destination by the constructor; st.ir is the last one built (0: none)
RECURSIVE emit_loop(_, _, _, _, _, _)
emit_loop(op, alu, order, fl, i, st) ==
  IF i >= alu.ncomp THEN st
  ELSE IF i \notin alu.mask THEN emit_loop(op, alu, order, fl, i + 1, st)
  ELSE LET id == Len(st.instr) + 1
           src == [k \in 1..Len(order) |-> vf_src(order[k], i)]
           n0 == NewInstr(op, vf_dest(i), src, {"write"}, 1)
           n1 == [n0 EXCEPT !.flags = @ \cup fl, !.origin = "emit"]
       IN emit_loop(op, alu, order, fl, i + 1,
                    [instr |-> Append(st.instr, n1),
                     uses |-> add_all(st.uses,
                                update_uses_srcs(n0.src, pin) \cup
                                update_uses_dest(n0.dest, n0.flags, pin), id),
                     parents |-> add_all(st.parents, {n0.dest}, id),
                     ir |-> id])

\* the whole lowering: the loop, then alu_last_instr on the last instruction
Emit(name, op, alu, order, fl, opt) ==
  LET st == emit_loop(op, alu, order, fl, 0,
                      [instr |-> instr, uses |-> uses, parents |-> parents, ir |-> 0])
  IN /\ instr' = IF st.ir # 0
                 THEN [st.instr EXCEPT ![st.ir].flags = @ \cup {"last_instr"}]
                 ELSE st.instr
     /\ uses' = st.uses
     /\ parents' = st.parents
     /\ last' = CallArg(name, st.ir, "true", "none", [alu |-> alu, opt |-> opt])
     /\ UNCHANGED <<pin, groups>>

EmitAluOp1(alu, flags) ==
  Emit("emit_alu_op1", "MOV", alu, <<0>>, emit_op1_flags(alu, flags), flags)

EmitAluOp2(alu, opts) ==
  Emit("emit_alu_op2", "ADD", alu, emit_op2_order(opts), emit_op2_flags(alu, opts), opts)

\* assert(!src[k]->abs): with an abs source a build with assertions stops in
\* the first component it lowers, a build without goes on
EmitAluOp3(alu, src_shuffle) ==
  \/ Emit("emit_alu_op3", "MULADD", alu, src_shuffle,
          emit_op3_flags(alu, src_shuffle), src_shuffle)
  \/ /\ \E k \in 1..3 : alu.abs[k]
     /\ \E i \in alu.mask : i < alu.ncomp
     /\ last' = CallArg("emit_alu_op3", 0, "abort", "assert",
                        [alu |-> alu, opt |-> src_shuffle])
     /\ UNCHANGED <<instr, pin, uses, parents, groups>>

\* ------------------------------------------------------------------------
\* Specification of the lowering: calls on a shader that holds at most
\* MaxShader instructions
\* ------------------------------------------------------------------------
MaxShader == 0

\* destination: number of components and write mask
EmitDests == {<<1, {0}>>, <<4, {}>>, <<4, {1, 3}>>, <<4, {0, 1, 2, 3}>>, <<2, {0, 1, 2, 3}>>}
EmitMods == {<<FALSE, FALSE>>, <<TRUE, FALSE>>, <<FALSE, TRUE>>, <<TRUE, TRUE>>}
EmitMods0 == {<<FALSE, FALSE>>, <<TRUE, TRUE>>}
EmitOp1Flags == {{}, {"src0_neg"}, {"src0_abs", "dst_clamp"}}
EmitOp2Opts == {op2_opt_none, op2_opt_reverse, op2_opt_neg_src1}
EmitOp3Mods == {<<<<FALSE, FALSE, FALSE>>, <<FALSE, FALSE, FALSE>>>>,
                <<<<TRUE, FALSE, FALSE>>, <<FALSE, FALSE, FALSE>>>>,
                <<<<FALSE, TRUE, TRUE>>, <<FALSE, FALSE, FALSE>>>>,
                <<<<FALSE, FALSE, TRUE>>, <<FALSE, FALSE, FALSE>>>>,
                <<<<FALSE, FALSE, FALSE>>, <<FALSE, TRUE, FALSE>>>>}
EmitShuffles == {<<0, 1, 2>>, <<2, 0, 1>>}

NirAlu(d, neg, abs, sat) ==
  [ncomp |-> d[1], mask |-> d[2], neg |-> neg, abs |-> abs, sat |-> sat]

NextEmit ==
  \/ /\ ~Aborted /\ Len(instr) <= MaxShader
     /\ \E d \in EmitDests, m \in EmitMods, sat \in BOOLEAN, f \in EmitOp1Flags :
           EmitAluOp1(NirAlu(d, <<m[1]>>, <<m[2]>>, sat), f)
     /\ UNCHANGED io
  \/ /\ ~Aborted /\ Len(instr) <= MaxShader
     /\ \E d \in EmitDests, m0 \in EmitMods0, m1 \in EmitMods, o \in EmitOp2Opts :
           EmitAluOp2(NirAlu(d, <<m0[1], m1[1]>>, <<m0[2], m1[2]>>, FALSE), o)
     /\ UNCHANGED io
  \/ /\ ~Aborted /\ Len(instr) <= MaxShader
     /\ \E d \in EmitDests, m \in EmitOp3Mods, sh \in EmitShuffles :
           EmitAluOp3(NirAlu(d, m[1], m[2], TRUE), sh)
     /\ UNCHANGED io

SpecEmit == Init /\ [][NextEmit]_vars

EmitNames == {"emit_alu_op1", "emit_alu_op2", "emit_alu_op3"}

\* the components of the write mask below ncomp, in increasing order from i
RECURSIVE MaskSeq(_, _)
MaskSeq(alu, i) ==
  IF i >= alu.ncomp THEN <<>>
  ELSE (IF i \in alu.mask THEN <<i>> ELSE <<>>) \o MaskSeq(alu, i + 1)

\* the source of the operation that is operand n (0-based) of the emitted
\* instructions: op2 swaps under op2_opt_reverse, op3 follows its shuffle
EmitOperand(c, n) ==
  IF c.op = "emit_alu_op1" THEN 0
  ELSE IF c.op = "emit_alu_op2"
       THEN (IF c.arg.opt = op2_opt_reverse THEN 1 - n ELSE n)
  ELSE c.arg.opt[n + 1]

EmitArity(c) ==
  IF c.op = "emit_alu_op1" THEN 1 ELSE IF c.op = "emit_alu_op2" THEN 2 ELSE 3

\* the lowering adds no modifier of its own: no flags of emit_alu_op1, no
\* op2_opt_neg_src1, no abs source of emit_alu_op3 (its assertion)
EmitPlain(c) ==
  /\ c.op = "emit_alu_op1" => c.arg.opt \cap {"src0_neg", "src0_abs"} = {}
  /\ c.op = "emit_alu_op2" => c.arg.opt # op2_opt_neg_src1
  /\ c.op = "emit_alu_op3" => \A k \in 1..3 : ~c.arg.alu.abs[k]

C19_WitnessOp3 ==
  /\ last.op = "emit_alu_op3" /\ last.ret = "true" /\ last.arg.opt = <<2, 0, 1>>
  /\ Len(instr) = 2 /\ has_alu_flag(instr[1], "src0_neg")

C19_WitnessOp1 ==
  /\ last.op = "emit_alu_op1" /\ last.ret = "true"
  /\ Len(instr) = 2 /\ has_alu_flag(instr[2], "src0_abs")


\* ------------------------------------------------------------------------
\* The memo tables of from_string
\* ------------------------------------------------------------------------
\* the line handed to from_string names an LDS opcode
TextIsLds == Len(text) >= 2 /\ text[2] = <<"LDS">>

\* what from_string makes of the line in a fresh process
FreshParse == from_string(Tail(text), {}, {}, NULL)

\* C20: a from_string call on a regular line leaves the LDS table alone and
\* one on an LDS line leaves the regular table alone, and whatever was
\* parsed before, the call gives what it gives in a fresh process: the same
\* instruction, or no instruction in both.
C20_MemoInvisible ==
  [][last'.op = "from_string" =>
       /\ TextIsLds => s_alu_map_by_name' = s_alu_map_by_name
       /\ ~TextIsLds => s_lds_map_by_name' = s_lds_map_by_name
       /\ (last'.ret = "instr") = FreshParse.ok
       /\ FreshParse.ok => instr'[Len(instr')] = FreshParse.instr]_vars

\* the tables alone: each holds descriptors of its own kind
C20_TablesSeparate ==
  /\ \A e \in s_alu_map_by_name : e.kind = "alu"
  /\ \A e \in s_lds_map_by_name : e.kind = "lds"

\* the results alone
C20_SameAsFresh ==
  [][last'.op = "from_string" =>
       /\ (last'.ret = "instr") = FreshParse.ok
       /\ FreshParse.ok => instr'[Len(instr')] = FreshParse.instr]_vars


\* ------------------------------------------------------------------------
\* Specification of from_string on lines that do_print did not write: the
\* stream handed to from_string is a printed line whose opcode name was
\* replaced, or that received one more token at its end
\* ------------------------------------------------------------------------
\* position of the opcode name in the line (after "ALU" and "LDS")
opcode_pos(line) == IF Len(line) >= 2 /\ line[2] = <<"LDS">> THEN 3 ELSE 2

\* the stream names another opcode
CorruptOpcode(name) ==
  /\ last.op = "do_print"
  /\ text' = [text EXCEPT ![opcode_pos(text)] = name]
  /\ last' = Call("stream", 0, "void", "opcode")
  /\ UNCHANGED <<instr, pin, uses, parents, groups, s_alu_map_by_name, s_lds_map_by_name, pvr>>

\* the stream holds one more token
AppendToken(tok) ==
  /\ last.op = "do_print" \/ (last.op = "stream" /\ last.why = "opcode")
  /\ text' = Append(text, tok)
  /\ last' = Call("stream", 0, "void", "token")
  /\ UNCHANGED <<instr, pin, uses, parents, groups, s_alu_map_by_name, s_lds_map_by_name, pvr>>

ParseShapes == {<<"MOV", 1>>, <<"ADD", 2>>}
ParseDests == {"R1x"}
ParseFlagSets == {{"write"}, {"write", "last_instr", "src0_neg"}}
ParseSrcs(n) == {[k \in 1..n |-> IF k = 2 THEN "L0" ELSE "R5x"]}
ParseSwizzles == {"VEC_210"}
ParseCfTypes == {"POP_AFTER"}
ParseOpcodes == {<<"FOO">>, <<"READ_RET">>, <<"ADD">>, <<"MOV", "_sat">>}
ParseTokens ==
  {<<"V", "EC_999">>, <<"VEC_012", "x">>, <<"VEC_012">>, <<"BOGUS">>, <<"POP_AFTER">>,
   <<"PUSH", "_BEFORE">>, <<"{", "L">>, <<"{", "E", "}">>, <<"R1x">>, <<"+">>}

NextParse ==
  \/ /\ ~Aborted /\ text = <<>> /\ NumCtor < MaxCtor
     /\ \E sh \in ParseShapes, d \in ParseDests, f \in ParseFlagSets :
         \E src \in ParseSrcs(nsrc(sh[1]) * sh[2]) :
            Construct(sh[1], d, src, f, sh[2])
     /\ UNCHANGED io
  \/ /\ ~Aborted /\ text = <<>> /\ NumLds < MaxLds
     /\ \E s0 \in {NULL, "L0"} : ConstructLds("DS_OP_ADD", s0, NULL, "R1x")
     /\ UNCHANGED io
  \/ /\ ~Aborted /\ text = <<>>
     /\ \E id \in 1..Len(instr), bs \in ParseSwizzles : SetBankSwizzle(id, bs)
     /\ UNCHANGED io
  \/ /\ ~Aborted /\ text = <<>>
     /\ \E id \in 1..Len(instr), cf \in ParseCfTypes : SetCfType(id, cf)
     /\ UNCHANGED io
  \/ /\ ~Aborted /\ text = <<>>
     /\ \E id \in 1..Len(instr) : DoPrint(id)
  \/ /\ ~Aborted
     /\ \E name \in ParseOpcodes : CorruptOpcode(name)
  \/ /\ ~Aborted
     /\ \E tok \in ParseTokens : AppendToken(tok)
  \/ /\ ~Aborted /\ NumParse < MaxParse
     /\ FromString(NULL)

SpecParse == Init /\ [][NextParse]_vars

\* the opcode name of the line is in neither alu_ops nor lds_ops
UnknownOpcode(line) ==
  LET name == line[opcode_pos(line)]
  IN /\ \A o \in AluOps : name # <<o>>
     /\ \A o \in DOMAIN lds_ops : name # <<lds_ops[o].name>>

\* the opcode name is in the table that from_string searches for the line
KnownOpcode(line) ==
  LET name == line[opcode_pos(line)]
  IN IF line[2] = <<"LDS">>
     THEN \E o \in DOMAIN lds_ops : name = <<lds_ops[o].name>>
     ELSE \E o \in AluOps : name = <<o>>

\* where the tokens after the sources begin in a line with a known opcode:
\* after the ':' come nsrc sources for each slot and a '+' between slots
TrailStart(line) ==
  LET q == opcode_pos(line)
      n == IF line[2] = <<"LDS">>
           THEN lds_ops[CHOOSE o \in DOMAIN lds_ops : line[q] = <<lds_ops[o].name>>].nsrc
           ELSE nsrc(line[q][1])
      colon == CHOOSE c \in 1..Len(line) :
                 line[c] = <<":">> /\ \A b \in 1..(c - 1) : line[b] # <<":">>
      slots == 1 + Cardinality({b \in (colon + 1)..Len(line) :
                                  line[b] = <<"+">> /\ b < Len(line)
                                  /\ (b - colon - 1) % (n + 1) = n})
  IN colon + 1 + n * slots + (slots - 1)

\* a token after the sources that the format does not have: one that
\* begins with 'V' and is none of the six bank-swizzle names, or one that
\* begins neither with '{' nor with 'V' and is none of the seven
\* control-flow names
BadSwizzleToken(tok) == starts_with_V(tok) /\ tok \notin {<<b>> : b \in Range(BankSwizzles)}
BadOtherToken(tok) ==
  ~starts_with_V(tok) /\ tok[1] # "{" /\ tok \notin {<<c>> : c \in cf_map}

Malformed(line) ==
  \/ UnknownOpcode(line)
  \/ /\ KnownOpcode(line)
     /\ \E b \in TrailStart(line)..Len(line) :
          BadSwizzleToken(line[b]) \/ BadOtherToken(line[b])

\* C21: from_string never returns an instruction for malformed text: a call
\* on a line whose opcode name is in neither opcode table, or that has after
\* its sources a token beginning with 'V' that is no bank-swizzle name, or
\* another token that is neither a '{' flag group nor a control-flow name,
\* ends in the abort state and creates no instruction.
C21_MalformedAborts ==
  [][(last'.op = "from_string" /\ Malformed(text)) =>
       /\ last'.ret = "abort"
       /\ instr' = instr]_vars

\* the three cases, each ending at its own unreachable()
C21_Witness ==
  /\ last.op = "from_string" /\ last.ret = "abort" /\ last.why = "unknown_bankswizzle"
  /\ ~UnknownOpcode(text) /\ BadSwizzleToken(text[Len(text)])

C21_WitnessOpcode ==
  /\ last.op = "from_string" /\ last.ret = "abort" /\ last.why = "unknown_opcode"
  /\ UnknownOpcode(text)

C21_WitnessToken ==
  /\ last.op = "from_string" /\ last.ret = "abort" /\ last.why = "unknown_token"
  /\ ~UnknownOpcode(text) /\ BadOtherToken(text[Len(text)])

\* a line with an added token the format has is read
C21_WitnessRead ==
  /\ last.op = "from_string" /\ last.ret = "instr"
  /\ text[Len(text)] \in {<<"{", "L">>, <<"VEC_012">>, <<"POP_AFTER">>}


\* ------------------------------------------------------------------------
\* Specification of replace_source on operands with indirect addresses:
\* one instruction whose destination and sources are registers, array
\* elements (with and without address) and a uniform with a buffer address
\* ------------------------------------------------------------------------
AddrOps == {"MOV", "ADD"}
AddrDests == {"R1x", "A0x", "A1x", "A2y"}
AddrSrcVals == {"R1x", "R5x", "A0x", "A1x", "A2y", "U1"}
AddrSrcs(n) == [1..n -> AddrSrcVals]
AddrOld == {"R1x", "R5x", "A0x", "R3y"}
AddrNew == {"R2x", "A0x", "A1x", "A2y", "U1", "L0"}

NextAddr ==
  \/ /\ NumCtor < MaxCtor
     /\ \E op \in AddrOps, d \in AddrDests, f \in {{}, {"write"}} :
         \E src \in AddrSrcs(nsrc(op)) : Construct(op, d, src, f, 1)
     /\ UNCHANGED io
  \/ /\ \E id \in 1..Len(instr), old \in AddrOld, new \in AddrNew : ReplaceSource(id, old, new)
     /\ UNCHANGED io

SpecAddr == Init /\ [][NextAddr]_vars

\* the sources of i that carry an indirect address carry the same one
SourcesShareAddr(i) ==
  \A k, j \in 1..Len(i.src) :
     (get_addr(i.src[k]) # NULL /\ get_addr(i.src[j]) # NULL)
       => equal_to(get_addr(i.src[k]), get_addr(i.src[j]))

\* array destination and array source v do not have different non-null
\* indirect addresses
AgreesWithDest(i, v) ==
  (/\ i.dest # NULL /\ ValueTab[i.dest].kind = "array" /\ ValueTab[v].kind = "array"
   /\ get_addr(i.dest) # NULL /\ get_addr(v) # NULL)
    => equal_to(get_addr(i.dest), get_addr(v))

DestAgrees(i) == \A k \in 1..Len(i.src) : AgreesWithDest(i, i.src[k])

C22_WitnessDest ==
  /\ last.op = "replace_source" /\ last.ret = "true"
  /\ ValueTab[last.arg].kind = "array" /\ get_addr(last.arg) # NULL
  /\ ValueTab[instr[last.id].dest].kind = "array" /\ get_addr(instr[last.id].dest) # NULL

\* sources with another address are refused
C22_WitnessRefused ==
  /\ last.op = "replace_source" /\ last.ret = "false" /\ last.why = "addr"

C22_WitnessRefusedDest ==
  /\ last.op = "replace_source" /\ last.ret = "false" /\ last.why = "dest_addr"


\* ------------------------------------------------------------------------
\* emit_alu_trans_op1_cayman and the specification of replace_dest on
\* cayman trans instructions
\* ------------------------------------------------------------------------
\* AluInstr::last_write
last_write == {"write", "last_instr"}

\* the loop over the components j < ncomp of the write mask: one
\* instruction of ncomp slots, each slot reading component j of the source
RECURSIVE emit_trans_cayman_loop(_, _, _, _)
emit_trans_cayman_loop(alu, ncomp, j, st) ==
  IF j >= ncomp THEN st
  ELSE IF j \notin alu.mask THEN emit_trans_cayman_loop(alu, ncomp, j + 1, st)
  ELSE LET id == Len(st.instr) + 1
           srcs == [i \in 1..ncomp |-> vf_src(0, j)]
           n0 == NewInstr("SIN", vf_dest(j), srcs, last_write, ncomp)
           n1 == [n0 EXCEPT !.flags = @ \cup (IF alu.abs[1] THEN {"src0_abs"} ELSE {})
                                        \cup (IF alu.neg[1] THEN {"src0_neg"} ELSE {})
                                        \cup (IF alu.sat THEN {"dst_clamp"} ELSE {})
                                        \cup {"is_cayman_trans"},
                           !.origin = "emit"]
       IN emit_trans_cayman_loop(alu, ncomp, j + 1,
            [instr |-> Append(st.instr, n1),
             uses |-> add_all(st.uses,
                        update_uses_srcs(n0.src, pin) \cup
                        update_uses_dest(n0.dest, n0.flags, pin), id),
             parents |-> add_all(st.parents, {n0.dest}, id),
             ir |-> id])

EmitAluTransOp1Cayman(alu) ==
  LET ncomp == IF alu.ncomp = 4 THEN 4 ELSE 3
      st == emit_trans_cayman_loop(alu, ncomp, 0,
              [instr |-> instr, uses |-> uses, parents |-> parents, ir |-> 0])
  IN /\ instr' = st.instr
     /\ uses' = st.uses
     /\ parents' = st.parents
     /\ last' = CallArg("emit_alu_trans_op1_cayman", st.ir, "true", "none", [alu |-> alu])
     /\ UNCHANGED <<pin, groups>>

\* destinations of the lowered operation, and instructions the constructor
\* is handed directly: opcode, slot count, flags
CaymanEmitDests == {<<1, {0}>>, <<3, {0, 2}>>, <<4, {1, 3}>>}
CaymanShapes ==
  {<<"SIN", 2, {"write", "is_cayman_trans"}>>,
   <<"SIN", 3, {"write", "last_instr", "is_cayman_trans"}>>,
   <<"ADD", 3, {"write", "is_cayman_trans"}>>,
   <<"ADD", 4, {"write", "is_cayman_trans"}>>,
   <<"MULADD", 1, {"write", "is_cayman_trans"}>>,
   <<"SIN", 3, {"write"}>>}
CaymanDests == {"R1x", "R5x"}
CaymanSrcs(n) == {[k \in 1..n |-> IF k = 1 THEN "R2x" ELSE "R3y"]}
CaymanNewDests == {"R4w", "D3", "R2x", "R6z"}

NextCayman ==
  \/ /\ ~Aborted /\ Len(instr) <= MaxShader
     /\ \E d \in CaymanEmitDests, neg \in BOOLEAN :
          EmitAluTransOp1Cayman(NirAlu(d, <<neg>>, <<FALSE>>, FALSE))
     /\ UNCHANGED io
  \/ /\ ~Aborted /\ Len(instr) <= MaxShader /\ NumCtor < MaxCtor
     /\ \E sh \in CaymanShapes, d \in CaymanDests :
         \E src \in CaymanSrcs(nsrc(sh[1]) * sh[2]) :
            Construct(sh[1], d, src, sh[3], sh[2])
     /\ UNCHANGED io
  \/ /\ ~Aborted
     /\ \E id \in 1..Len(instr), nd \in CaymanNewDests, ml \in BOOLEAN :
          ReplaceDest(id, nd, ml)
     /\ UNCHANGED io

SpecCayman == Init /\ [][NextCayman]_vars

\* sources.length == nsrc(opcode) * slot_count
ArityHolds(i) == Len(i.src) = nsrc(i.opcode) * i.slots

\* the call on instruction i was not refused by one of the early returns
CaymanMoved(l, i) ==
  /\ l.op = "replace_dest" /\ l.ret # "false"
  /\ has_alu_flag(i, "is_cayman_trans")

CaymanBuilt(i) == i.slots = 4 \/ (i.slots = 3 /\ nsrc(i.opcode) = 1)

C23_WitnessTwoSlots ==
  /\ last.op = "replace_dest" /\ last.ret = "true" /\ chan(last.arg) = 3
  /\ has_alu_flag(instr[last.id], "is_cayman_trans")
  /\ instr[last.id].slots = 4 /\ Len(instr[last.id].src) = 3


\* ------------------------------------------------------------------------
\* Pin and last-instruction flag after replace_dest
\* ------------------------------------------------------------------------
\* C24: a replace_dest call that returns true on an instruction whose
\* destination is channel-pinned sets the pin of the new destination to
\* chgr if it was group-pinned and to chan otherwise; on another
\* destination it leaves the pin of the new destination unchanged.  The
\* last-instruction flag is cleared unless move_instr carries it, and is
\* untouched if it does.
C24_PinAndLastFlag ==
  [][(last'.op = "replace_dest" /\ last'.ret = "true") =>
       LET o == instr[last'.id]
           n == instr'[last'.id]
           nd == last'.arg
       IN /\ pin[o.dest] = "chan" =>
               pin'[nd] = (IF pin[nd] = "group" THEN "chgr" ELSE "chan")
          /\ pin[o.dest] # "chan" => pin'[nd] = pin[nd]
          /\ \A v \in Values \ {nd} : pin'[v] = pin[v]
          /\ ~last'.move => ~has_alu_flag(n, "last_instr")
          /\ last'.move => (has_alu_flag(n, "last_instr") <=> has_alu_flag(o, "last_instr"))
          /\ n.flags \ {"last_instr"} = o.flags \ {"last_instr"}]_vars

\* a group-pinned register became the destination in place of a
\* channel-pinned one, moved by an instruction without the flag
C24_Witness ==
  /\ last.op = "replace_dest" /\ last.ret = "true" /\ ~last.move
  /\ ValueTab[last.arg].pin = "group" /\ pin[last.arg] = "chgr"
  /\ ~has_alu_flag(instr[last.id], "last_instr")

\* a free register became channel-pinned
C24_WitnessChan ==
  /\ last.op = "replace_dest" /\ last.ret = "true"
  /\ ValueTab[last.arg].pin = "free" /\ pin[last.arg] = "chan"

\* the flag stays when move_instr carries it
C24_WitnessKept ==
  /\ last.op = "replace_dest" /\ last.ret = "true" /\ last.move
  /\ has_alu_flag(instr[last.id], "last_instr")
  /\ pin[last.arg] = ValueTab[last.arg].pin


\* ------------------------------------------------------------------------
\* Specification of split() on instructions with source modifiers, clamp
\* and the 64-bit flag
\* ------------------------------------------------------------------------
ModShapes == {<<"MOV", 2>>, <<"ADD", 2>>, <<"ADD", 4>>, <<"MULADD", 2>>}
ModDests == {"R1x", "R3y"}
ModFlagSets ==
  {{"write"} \cup m \cup c \cup w :
     m \in {{}, {"src0_neg"}, {"src1_abs"}, {"src0_abs", "src1_neg", "src2_neg"}},
     c \in {{}, {"dst_clamp"}},
     w \in {{}, {"64bit_op"}}}
ModSrcs(n) == {[k \in 1..n |-> IF k % 2 = 1 THEN "R1x" ELSE "R3y"],
               [k \in 1..n |-> "L0"]}

NextMods ==
  \/ /\ ~Aborted /\ NumCtor < MaxCtor
     /\ \E sh \in ModShapes, d \in ModDests, f \in ModFlagSets :
         \E src \in ModSrcs(nsrc(sh[1]) * sh[2]) :
            Construct(sh[1], d, src, f, sh[2])
     /\ UNCHANGED io
  \/ /\ ~Aborted
     /\ \E id \in 1..Len(instr) : Split(id)
     /\ UNCHANGED io

SpecMods == Init /\ [][NextMods]_vars

\* C25: after split(), every produced instruction carries the source
\* negate/abs flags of the original when the original is not a 64-bit op;
\* when it is, the instruction of slot 0 carries them and the others carry
\* none.  Every produced instruction carries the destination-clamp flag
\* exactly when the original does.
C25_SplitModifiers ==
  SplitDone =>
     LET o == instr[last.id] IN
     \A k \in SplitProduced :
        /\ instr[k].flags \cap SrcModFlags =
              (IF ~has_alu_flag(o, "64bit_op") \/ SplitSlot(k) = 0
               THEN o.flags \cap SrcModFlags ELSE {})
        /\ has_alu_flag(instr[k], "dst_clamp") <=> has_alu_flag(o, "dst_clamp")

\* a 64-bit op with source modifiers and clamp was split
C25_Witness ==
  /\ SplitDone
  /\ has_alu_flag(instr[last.id], "64bit_op") /\ has_alu_flag(instr[last.id], "dst_clamp")
  /\ instr[last.id].flags \cap SrcModFlags # {}
  /\ Cardinality(SplitProduced) = instr[last.id].slots
  /\ \E k \in SplitProduced : SplitSlot(k) > 0

\* an op that is not 64-bit with source modifiers was split into four
C25_WitnessAll ==
  /\ SplitDone /\ ~has_alu_flag(instr[last.id], "64bit_op")
  /\ instr[last.id].flags \cap SrcModFlags # {}
  /\ Cardinality(SplitProduced) = 4


\* ------------------------------------------------------------------------
\* The negate flag of the second operand of emit_alu_op2
\* ------------------------------------------------------------------------
\* C26: every instruction emit_alu_op2 emits has alu_src1_neg exactly when
\* one of the option op2_opt_neg_src1 and the negate modifier of the second
\* operand (the first source under op2_opt_reverse) is set, not both; the
\* other modifiers follow the operands as they are after the swap.
C26_Src1NegateXor ==
  [][(last'.op = "emit_alu_op2" /\ last'.ret = "true") =>
       LET alu == last'.arg.alu
           opts == last'.arg.opt
           rev == opt_and(opts, op2_opt_reverse) # 0
           first == IF rev THEN 2 ELSE 1
           second == IF rev THEN 1 ELSE 2
           neg_opt == opt_and(opts, op2_opt_neg_src1) # 0
       IN \A k \in (Len(instr) + 1)..Len(instr') :
             /\ has_alu_flag(instr'[k], "src1_neg") <=> (neg_opt # alu.neg[second])
             /\ has_alu_flag(instr'[k], "src0_neg") <=> alu.neg[first]
             /\ has_alu_flag(instr'[k], "src0_abs") <=> alu.abs[first]
             /\ has_alu_flag(instr'[k], "src1_abs") <=> alu.abs[second]]_vars

\* the same without the calls that combine op2_opt_neg_src1 with a negated
\* second operand
C26_ExceptBoth ==
  [][(/\ last'.op = "emit_alu_op2" /\ last'.ret = "true"
      /\ ~(opt_and(last'.arg.opt, op2_opt_neg_src1) # 0 /\ last'.arg.alu.neg[2])) =>
       LET alu == last'.arg.alu
           opts == last'.arg.opt
           rev == opt_and(opts, op2_opt_reverse) # 0
           second == IF rev THEN 1 ELSE 2
           neg_opt == opt_and(opts, op2_opt_neg_src1) # 0
       IN \A k \in (Len(instr) + 1)..Len(instr') :
             has_alu_flag(instr'[k], "src1_neg") <=> (neg_opt # alu.neg[second])]_vars

\* fsub of a negated second source was lowered
C26_WitnessFsubNeg ==
  /\ last.op = "emit_alu_op2" /\ last.ret = "true" /\ last.id # 0
  /\ last.arg.opt = op2_opt_neg_src1 /\ last.arg.alu.neg[2]
  /\ has_alu_flag(instr[last.id], "src1_neg")


\* ------------------------------------------------------------------------
\* The buffer-object store of src/imagination/vulkan/pvr_bo.c: pvr_bo
\* objects, the winsys calls made for each of them, and the tree of the
\* tracked ones under its mutex
\* ------------------------------------------------------------------------
MaxBos == 3        \* pvr_bo objects the host allocator can hand out
MaxThreads == 2    \* threads calling into pvr_bo.c
BoIds == 1..MaxBos
Threads == 1..MaxThreads

CPU_MAPPED == "PVR_BO_ALLOC_FLAG_CPU_MAPPED"

\* 1 when a is the lower address, -1 when it is the higher one
pvr_dev_addr_cmp(a, b) ==
  IF a < b THEN 1 ELSE IF a > b THEN -1 ELSE 0

\* the mutant: the operands taken in the other order
pvr_bo_store_entry_cmp_key_swapped(vma, addr) ==
  IF addr >= vma.dev_addr /\ addr < vma.dev_addr + vma.size
  THEN 0
  ELSE pvr_dev_addr_cmp(addr, vma.dev_addr)
\* search comparator: 0 inside the range of the node, else the order of the
\* start of the range and the key
pvr_bo_store_entry_cmp_key(vma, addr) ==
  IF addr >= vma.dev_addr /\ addr < vma.dev_addr + vma.size
  THEN 0
  ELSE pvr_dev_addr_cmp(vma.dev_addr, addr)

\* insertion comparator: the order of the starts of the two ranges
pvr_bo_store_entry_cmp(vma_a, vma_b) ==
  pvr_dev_addr_cmp(vma_a.dev_addr, vma_b.dev_addr)

\* util/rb_tree: a binary search tree over the BO ids, 0 being no node.
\* The rotations and colours of the red-black tree keep the order of the
\* nodes and are left out.
EmptyTree ==
  [root |-> 0, left |-> [b \in BoIds |-> 0], right |-> [b \in BoIds |-> 0]]

RECURSIVE rb_subtree(_, _)
rb_subtree(T, x) ==
  IF x = 0 THEN {} ELSE {x} \cup rb_subtree(T, T.left[x]) \cup rb_subtree(T, T.right[x])

\* the entries of the tree
rb_nodes(T) == rb_subtree(T, T.root)

rb_tree_is_empty(T) == T.root = 0

\* the parent of a node, 0 for the root
rb_parent(T, n) ==
  IF \E p \in BoIds : T.left[p] = n \/ T.right[p] = n
  THEN CHOOSE p \in BoIds : T.left[p] = n \/ T.right[p] = n
  ELSE 0

\* the place of a new node under x: left of a node that compares below 0
RECURSIVE rb_insert_under(_, _, _, _)
rb_insert_under(B, T, x, node) ==
  LET goleft == pvr_bo_store_entry_cmp(B[x].vma, B[node].vma) < 0
      next == IF goleft THEN T.left[x] ELSE T.right[x]
  IN IF next # 0 THEN rb_insert_under(B, T, next, node)
     ELSE IF goleft THEN [T EXCEPT !.left[x] = node]
     ELSE [T EXCEPT !.right[x] = node]

rb_tree_insert(B, T, node) ==
  LET T0 == [T EXCEPT !.left[node] = 0, !.right[node] = 0]
  IN IF T.root = 0 THEN [T0 EXCEPT !.root = node]
     ELSE rb_insert_under(B, T0, T.root, node)

\* the node for which the key comparator gives 0, or 0
RECURSIVE rb_search_from(_, _, _, _)
rb_search_from(B, T, x, key) ==
  IF x = 0 THEN 0
  ELSE LET c == pvr_bo_store_entry_cmp_key(B[x].vma, key)
       IN IF c < 0 THEN rb_search_from(B, T, T.left[x], key)
          ELSE IF c > 0 THEN rb_search_from(B, T, T.right[x], key)
          ELSE x

rb_tree_search(B, T, key) == rb_search_from(B, T, T.root, key)

RECURSIVE rb_leftmost(_, _)
rb_leftmost(T, x) == IF T.left[x] = 0 THEN x ELSE rb_leftmost(T, T.left[x])

\* node u of the tree gives its place to v (0 or a node)
rb_splice(T, u, v) ==
  LET p == rb_parent(T, u)
  IN IF p = 0 THEN [T EXCEPT !.root = v]
     ELSE IF T.left[p] = u THEN [T EXCEPT !.left[p] = v]
     ELSE [T EXCEPT !.right[p] = v]

\* removal of node z: a node with two children gives its place to the
\* leftmost node of its right subtree
rb_tree_remove(T, z) ==
  LET clear(TT) == [TT EXCEPT !.left[z] = 0, !.right[z] = 0]
  IN IF T.left[z] = 0 THEN clear(rb_splice(T, z, T.right[z]))
     ELSE IF T.right[z] = 0 THEN clear(rb_splice(T, z, T.left[z]))
     ELSE LET y == rb_leftmost(T, T.right[z])
              T1 == rb_splice(T, y, T.right[y])
              T2 == [T1 EXCEPT !.left[y] = T1.left[z], !.right[y] = T1.right[z]]
          IN clear(rb_splice(T2, z, y))

\* ------------------------------------------------------------------------
\* pvr_bo objects and the winsys calls of pvr_bo_alloc and pvr_bo_free
\* ------------------------------------------------------------------------
\* a pvr_bo the host allocator has not handed out: no buffer, no CPU
\* mapping, no device-address range (vma is NULL), no device mapping
NoVma == [dev_addr |-> 0, size |-> 0]
FreeBo ==
  [st |-> "unused", buf |-> FALSE, map |-> FALSE,
   vma |-> NoVma, dev |-> FALSE]

\* the ranges the heap can give: [dev_addr, dev_addr + size)
HeapRanges ==
  {[dev_addr |-> 4, size |-> 4], [dev_addr |-> 8, size |-> 4],
   [dev_addr |-> 12, size |-> 2], [dev_addr |-> 6, size |-> 4]}
LookupAddrs == 3..14

InRange(vma, addr) == vma.dev_addr <= addr /\ addr < vma.dev_addr + vma.size
Overlap(r1, r2) ==
  r1.dev_addr < r2.dev_addr + r2.size /\ r2.dev_addr < r1.dev_addr + r1.size
\* the heap gives a range that no pvr_bo holds
HeapFree(B, range) ==
  \A b \in BoIds : B[b].vma # NoVma => ~Overlap(B[b].vma, range)

\* what one call does to the pvr_bo; a call that fails leaves it as it is
bo_call(B, call, ok, range) ==
  LET L == B
  IN IF ~ok THEN L
     ELSE CASE call = "pvr_bo_alloc_bo" -> [L EXCEPT !.st = "building"]
            [] call = "buffer_create" -> [L EXCEPT !.buf = TRUE]
            [] call = "buffer_map" -> [L EXCEPT !.map = TRUE]
            [] call = "heap_alloc" -> [L EXCEPT !.vma = range]
            [] call = "vma_map" -> [L EXCEPT !.dev = TRUE]
            [] call = "vma_unmap" -> [L EXCEPT !.dev = FALSE]
            [] call = "heap_free" -> [L EXCEPT !.vma = NoVma]
            [] call = "buffer_unmap" -> [L EXCEPT !.map = FALSE]
            [] call = "buffer_destroy" -> [L EXCEPT !.buf = FALSE]
            [] call = "pvr_bo_free_bo" -> [L EXCEPT !.st = "unused"]

RECURSIVE bo_run(_, _, _, _)
bo_run(B, calls, k, range) ==
  IF k > Len(calls) THEN B
  ELSE bo_run(bo_call(B, calls[k][1], calls[k][2], range), calls, k + 1, range)

\* the steps of pvr_bo_alloc in the order of the code; buffer_map is taken
\* only with the CPU_MAPPED flag
AllocSteps ==
  <<"pvr_bo_alloc_bo", "buffer_create", "buffer_map", "heap_alloc", "vma_map">>
alloc_steps(flags) ==
  SelectSeq(AllocSteps, LAMBDA st : st # "buffer_map" \/ CPU_MAPPED \in flags)

\* the calls up to the one that fails, if any
RECURSIVE alloc_calls(_, _, _)
alloc_calls(steps, k, fail) ==
  IF k > Len(steps) THEN <<>>
  ELSE IF steps[k] = fail THEN << <<steps[k], FALSE>> >>
  ELSE << <<steps[k], TRUE>> >> \o alloc_calls(steps, k + 1, fail)

\* the labels of the error path, in the order of the code
ErrLabels ==
  <<"err_heap_free", "err_buffer_unmap", "err_buffer_destroy", "err_free_bo">>

\* the statement under a label
err_label_calls(label, flags) ==
  CASE label = "err_heap_free" -> << <<"heap_free", TRUE>> >>
    [] label = "err_buffer_unmap" ->
         IF CPU_MAPPED \in flags THEN << <<"buffer_unmap", TRUE>> >> ELSE <<>>
    [] label = "err_buffer_destroy" -> << <<"buffer_destroy", TRUE>> >>
    [] label = "err_free_bo" -> << <<"pvr_bo_free_bo", TRUE>> >>

\* the mutant: a failed vma_map leaves through the label below heap_free
err_goto_skip_heap_free(fail) ==
  CASE fail = "vma_map" -> 2
    [] fail = "heap_alloc" -> 2
    [] fail = "buffer_map" -> 3
    [] fail = "buffer_create" -> 4
\* the label a failed step jumps to (its place in ErrLabels)
err_goto(fail) ==
  CASE fail = "vma_map" -> 1
    [] fail = "heap_alloc" -> 2
    [] fail = "buffer_map" -> 3
    [] fail = "buffer_create" -> 4

\* control falls from a label through the ones below it
RECURSIVE err_path(_, _)
err_path(k, flags) ==
  IF k > Len(ErrLabels) THEN <<>>
  ELSE err_label_calls(ErrLabels[k], flags) \o err_path(k + 1, flags)

\* the result of pvr_bo_alloc by the step that failed
alloc_result(fail) ==
  CASE fail = "none" -> "VK_SUCCESS"
    [] fail = "pvr_bo_alloc_bo" -> "VK_ERROR_OUT_OF_HOST_MEMORY"
    [] fail = "buffer_create" -> "VK_ERROR_OUT_OF_DEVICE_MEMORY"
    [] fail = "buffer_map" -> "VK_ERROR_MEMORY_MAP_FAILED"
    [] fail = "heap_alloc" -> "VK_ERROR_OUT_OF_DEVICE_MEMORY"
    [] fail = "vma_map" -> "VK_ERROR_MEMORY_MAP_FAILED"

\* all the calls of one pvr_bo_alloc on its pvr_bo
pvr_bo_alloc_calls(flags, fail) ==
  alloc_calls(alloc_steps(flags), 1, fail)
    \o (IF fail \in {"none", "pvr_bo_alloc_bo"} THEN <<>>
        ELSE err_path(err_goto(fail), flags))

\* the calls of pvr_bo_free on a pvr_bo, after its removal from the store
pvr_bo_free_calls(B) ==
  << <<"vma_unmap", TRUE>>, <<"heap_free", TRUE>> >>
    \o (IF B.map THEN << <<"buffer_unmap", TRUE>> >> ELSE <<>>)
    \o << <<"buffer_destroy", TRUE>>, <<"pvr_bo_free_bo", TRUE>> >>

\* ------------------------------------------------------------------------
\* The device, its threads and the calls into pvr_bo.c.  A call that
\* reaches the store goes through the positions lock, tree, size, unlock
\* and return; `last` keeps the last call made on the device as a whole.
\* ------------------------------------------------------------------------
\* device->bo_store: NULL, or the store with its tree, size and mutex;
\* destroyed tells that pvr_bo_store_destroy has run, after which the
\* device allocates and frees no more
NoStore == [present |-> FALSE, destroyed |-> FALSE]
EmptyStore ==
  [present |-> TRUE, destroyed |-> FALSE,
   tree |-> EmptyTree, size |-> 0, mutex |-> 0]

\* a thread outside pvr_bo.c; out is the caller's variable behind
\* pvr_bo_out, -1 as long as the call has not written it; calls are the
\* calls its pvr_bo_alloc or pvr_bo_free made on the pvr_bo, in their order
IdleThread ==
  [pc |-> "idle", op |-> "none", bo |-> 0, addr |-> 0, ret |-> "none",
   out |-> -1, flags |-> {}, calls |-> <<>>]

\* the state of the shader compiler, which the device leaves alone
alu == <<instr, pin, uses, parents, groups, text,
         s_alu_map_by_name, s_lds_map_by_name>>

\* device->bo_store after pvr_bo_store_create
pvr_bo_store_create(track) == IF ~track THEN NoStore ELSE EmptyStore

InitBo ==
  /\ instr = <<>>
  /\ pin = [v \in Values |-> ValueTab[v].pin]
  /\ uses = [v \in Values |-> {}]
  /\ parents = [v \in Values |-> {}]
  /\ groups = <<>>
  /\ text = <<>>
  /\ s_alu_map_by_name = {}
  /\ s_lds_map_by_name = {}
  /\ \E track \in BOOLEAN :
       /\ bo_store = pvr_bo_store_create(track)
       /\ last = Call("pvr_bo_store_create", 0, "VK_SUCCESS",
                      IF track THEN "TRACK_BOS" ELSE "none")
  /\ bos = [b \in BoIds |-> FreeBo]
  /\ threads = [t \in Threads |-> IdleThread]

DeviceAlive == ~bo_store.destroyed

\* pvr_bo_alloc up to its call of pvr_bo_store_insert: the steps on the
\* new pvr_bo, and on a failure the error path and the return
PvrBoAlloc(t, flags, fail, range) ==
  /\ DeviceAlive
  /\ threads[t].pc = "idle"
  /\ fail = "buffer_map" => CPU_MAPPED \in flags
  /\ IF fail = "pvr_bo_alloc_bo"
     THEN /\ threads' = [threads EXCEPT ![t] =
                 [IdleThread EXCEPT !.op = "pvr_bo_alloc", !.flags = flags,
                                    !.calls = pvr_bo_alloc_calls(flags, fail),
                                    !.ret = alloc_result(fail)]]
          /\ UNCHANGED bos
     ELSE \E b \in BoIds :
          \* the object with the lowest id stands for the one vk_alloc gives
          /\ bos[b].st = "unused"
          /\ \A c \in BoIds : c < b => bos[c].st # "unused"
          /\ fail \in {"none", "vma_map"} => HeapFree(bos, range)
          /\ bos' = [bos EXCEPT ![b] =
                 bo_run(FreeBo, pvr_bo_alloc_calls(flags, fail), 1, range)]
          /\ threads' = [threads EXCEPT ![t] =
                 [IdleThread EXCEPT
                    !.op = "pvr_bo_alloc", !.bo = b, !.flags = flags,
                    !.calls = pvr_bo_alloc_calls(flags, fail),
                    !.pc = IF fail # "none" THEN "idle"
                           ELSE IF ~bo_store.present THEN "return" ELSE "lock",
                    !.ret = IF fail # "none" THEN alloc_result(fail) ELSE "none"]]
  /\ UNCHANGED <<alu, last, bo_store>>

\* the end of pvr_bo_alloc: *pvr_bo_out = pvr_bo; return VK_SUCCESS
PvrBoAllocReturn(t) ==
  /\ threads[t].pc = "return" /\ threads[t].op = "pvr_bo_alloc"
  /\ bos' = [bos EXCEPT ![threads[t].bo].st = "owned"]
  /\ threads' = [threads EXCEPT ![t].pc = "idle", ![t].ret = alloc_result("none"),
                                ![t].out = threads[t].bo]
  /\ UNCHANGED <<alu, last, bo_store>>

\* pvr_bo_free up to its call of pvr_bo_store_remove, on a pvr_bo that
\* pvr_bo_alloc returned and that was not freed since, or on NULL
PvrBoFree(t, b) ==
  /\ DeviceAlive
  /\ threads[t].pc = "idle"
  /\ IF b = 0
     THEN /\ threads' = [threads EXCEPT ![t] =
                 [IdleThread EXCEPT !.op = "pvr_bo_free", !.ret = "void"]]
          /\ UNCHANGED bos
     ELSE /\ bos[b].st = "owned"
          /\ bos' = [bos EXCEPT ![b].st = "freeing"]
          /\ threads' = [threads EXCEPT ![t] =
                 [IdleThread EXCEPT
                    !.op = "pvr_bo_free", !.bo = b,
                    !.pc = IF ~bo_store.present THEN "return" ELSE "lock"]]
  /\ UNCHANGED <<alu, last, bo_store>>

\* the rest of pvr_bo_free: the mappings, the range, the buffer, the pvr_bo
PvrBoFreeRelease(t) ==
  /\ threads[t].pc = "return" /\ threads[t].op = "pvr_bo_free"
  /\ LET b == threads[t].bo
     IN bos' = [bos EXCEPT ![b] =
                  bo_run(bos[b], pvr_bo_free_calls(bos[b]), 1, NoVma)]
  /\ threads' = [threads EXCEPT ![t].pc = "idle", ![t].ret = "void",
                                ![t].calls = pvr_bo_free_calls(bos[threads[t].bo])]
  /\ UNCHANGED <<alu, last, bo_store>>

\* pvr_bo_store_lookup up to the lock: NULL at once without a store
PvrBoStoreLookup(t, addr) ==
  /\ DeviceAlive
  /\ threads[t].pc = "idle"
  /\ threads' = [threads EXCEPT ![t] =
        [IdleThread EXCEPT
           !.op = "pvr_bo_store_lookup", !.addr = addr,
           !.pc = IF ~bo_store.present THEN "idle" ELSE "lock",
           !.ret = IF ~bo_store.present THEN NULL ELSE "none"]]
  /\ UNCHANGED <<alu, last, bo_store, bos>>

\* the end of pvr_bo_store_lookup: NULL, or the pvr_bo of the node found
PvrBoStoreLookupReturn(t) ==
  /\ threads[t].pc = "return" /\ threads[t].op = "pvr_bo_store_lookup"
  /\ threads' = [threads EXCEPT ![t].pc = "idle",
                                ![t].ret = IF threads[t].bo = 0 THEN NULL ELSE "bo"]
  /\ UNCHANGED <<alu, last, bo_store, bos>>

\* simple_mtx: the lock is free
mtx_free(store) == store.mutex = 0

\* the mutant: an insertion that does not take the mutex
takes_mutex_but_insert(op) == op # "pvr_bo_alloc"
\* pvr_bo_store_insert, pvr_bo_store_remove and pvr_bo_store_lookup put
\* their work on the tree between simple_mtx_lock and simple_mtx_unlock
takes_mutex(op) == op \in {"pvr_bo_alloc", "pvr_bo_free", "pvr_bo_store_lookup"}

\* simple_mtx_lock(&store->mutex): the thread waits until the lock is free
StoreLock(t) ==
  /\ threads[t].pc = "lock"
  /\ IF takes_mutex(threads[t].op)
     THEN /\ mtx_free(bo_store)
          /\ bo_store' = [bo_store EXCEPT !.mutex = t]
     ELSE UNCHANGED bo_store
  /\ threads' = [threads EXCEPT ![t].pc = "tree"]
  /\ UNCHANGED <<alu, last, bos>>

\* rb_tree_insert(&store->tree, node, pvr_bo_store_entry_cmp)
StoreInsert(t) ==
  /\ threads[t].pc = "tree" /\ threads[t].op = "pvr_bo_alloc"
  /\ bo_store' = [bo_store EXCEPT !.tree = rb_tree_insert(bos, @, threads[t].bo)]
  /\ threads' = [threads EXCEPT ![t].pc = "size"]
  /\ UNCHANGED <<alu, last, bos>>

\* rb_tree_remove(&store->tree, node)
StoreRemove(t) ==
  /\ threads[t].pc = "tree" /\ threads[t].op = "pvr_bo_free"
  /\ bo_store' = [bo_store EXCEPT !.tree = rb_tree_remove(@, threads[t].bo)]
  /\ threads' = [threads EXCEPT ![t].pc = "size"]
  /\ UNCHANGED <<alu, last, bos>>

\* node = rb_tree_search(&store->tree, &addr, pvr_bo_store_entry_cmp_key)
StoreSearch(t) ==
  /\ threads[t].pc = "tree" /\ threads[t].op = "pvr_bo_store_lookup"
  /\ threads' = [threads EXCEPT
        ![t].pc = "unlock",
        ![t].bo = rb_tree_search(bos, bo_store.tree, threads[t].addr)]
  /\ UNCHANGED <<alu, last, bo_store, bos>>

\* store->size++ of the insertion, store->size-- of the removal; the
\* counter is a uint32_t, and MaxBos objects keep it far from its ends
StoreSize(t) ==
  /\ threads[t].pc = "size"
  /\ bo_store' = [bo_store EXCEPT !.size =
        IF threads[t].op = "pvr_bo_alloc" THEN @ + 1 ELSE @ - 1]
  /\ threads' = [threads EXCEPT ![t].pc = "unlock"]
  /\ UNCHANGED <<alu, last, bos>>

\* simple_mtx_unlock(&store->mutex)
StoreUnlock(t) ==
  /\ threads[t].pc = "unlock"
  /\ bo_store' = [bo_store EXCEPT
        !.mutex = IF takes_mutex(threads[t].op) THEN 0 ELSE @]
  /\ threads' = [threads EXCEPT ![t].pc = "return"]
  /\ UNCHANGED <<alu, last, bos>>

AllocFlagSets == {{}, {CPU_MAPPED}}
AllocFails == {"none"} \cup Range(AllocSteps)
\* the interleavings are those of the store: of the failures, the last one
BoFails == {"none", "vma_map"}
BoLookupAddrs == {5, 13}
BoRanges == {r \in HeapRanges : r.dev_addr # 8}
BoFlagSets == {{CPU_MAPPED}}
MaxLive == 2       \* pvr_bo objects held at a time under NextBo
NumLive == Cardinality({b \in BoIds : bos[b].st # "unused"})

\* the calls of the threads, in any interleaving
NextBo ==
  \/ /\ NumLive < MaxLive
     /\ \E t \in Threads, flags \in BoFlagSets, fail \in BoFails,
           range \in BoRanges : PvrBoAlloc(t, flags, fail, range)
  \/ \E t \in Threads : PvrBoAllocReturn(t)
  \/ \E t \in Threads, b \in 0..MaxBos : PvrBoFree(t, b)
  \/ \E t \in Threads : PvrBoFreeRelease(t)
  \/ \E t \in Threads, addr \in BoLookupAddrs : PvrBoStoreLookup(t, addr)
  \/ \E t \in Threads : PvrBoStoreLookupReturn(t)
  \/ \E t \in Threads : StoreLock(t)
  \/ \E t \in Threads : StoreInsert(t)
  \/ \E t \in Threads : StoreRemove(t)
  \/ \E t \in Threads : StoreSearch(t)
  \/ \E t \in Threads : StoreSize(t)
  \/ \E t \in Threads : StoreUnlock(t)

SpecBo == InitBo /\ [][NextBo]_vars

\* ------------------------------------------------------------------------
\* The calls on the device as a whole, made while no thread is inside
\* pvr_bo.c: pvr_bo_store_dump and pvr_bo_store_destroy
\* ------------------------------------------------------------------------
AllIdle == \A t \in Threads : threads[t].pc = "idle"

\* pvr_bo_store_dump on a NULL store.  The initialiser of nr_bos reads
\* store->size before the check of the pointer, so the behaviour is
\* undefined: the read faults; or it yields some word and the check that
\* follows gives the warning and false; or the build has moved the unused
\* read below the check; or it has dropped the check after the read and
\* walks whatever the tree of the NULL store is.
DumpNullOutcomes ==
  {[ret |-> "crash", why |-> "null_deref", reads |-> <<"size">>],
   [ret |-> "false", why |-> "no_store", reads |-> <<"size">>],
   [ret |-> "false", why |-> "no_store", reads |-> <<>>],
   [ret |-> "crash", why |-> "check_dropped", reads |-> <<"size", "tree">>]}

\* the outcomes of pvr_bo_store_dump: what it returns, what it reports and
\* the fields of the store it read, in the order of the reads
pvr_bo_store_dump(store) ==
  IF ~store.present THEN DumpNullOutcomes
  ELSE {[ret |-> "true", why |-> "dumped", reads |-> <<"size", "tree">>]}

PvrBoStoreDump ==
  /\ AllIdle
  /\ \E o \in pvr_bo_store_dump(bo_store) :
       last' = CallArg("pvr_bo_store_dump", 0, o.ret, o.why, o.reads)
  /\ UNCHANGED <<alu, pvr>>

\* pvr_bo_store_destroy: nothing without a store; a store that still holds
\* entries is dumped first
PvrBoStoreDestroy ==
  /\ DeviceAlive /\ AllIdle
  /\ last' = Call("pvr_bo_store_destroy", 0, "void",
                  IF bo_store.present /\ ~rb_tree_is_empty(bo_store.tree)
                  THEN "dumped" ELSE "none")
  /\ bo_store' = [NoStore EXCEPT !.destroyed = TRUE]
  /\ UNCHANGED <<alu, bos, threads>>

\* the calls of one thread, one after the other, and the calls on the
\* device as a whole
NextStore ==
  \/ \E flags \in AllocFlagSets, fail \in AllocFails, range \in HeapRanges :
        PvrBoAlloc(1, flags, fail, range)
  \/ PvrBoAllocReturn(1)
  \/ \E b \in 0..MaxBos : PvrBoFree(1, b)
  \/ PvrBoFreeRelease(1)
  \/ \E addr \in LookupAddrs : PvrBoStoreLookup(1, addr)
  \/ PvrBoStoreLookupReturn(1)
  \/ StoreLock(1)
  \/ StoreInsert(1)
  \/ StoreRemove(1)
  \/ StoreSearch(1)
  \/ StoreSize(1)
  \/ StoreUnlock(1)
  \/ PvrBoStoreDump
  \/ PvrBoStoreDestroy

SpecStore == InitBo /\ [][NextStore]_vars

\* ------------------------------------------------------------------------
\* C27: the failure paths of pvr_bo_alloc
\* ------------------------------------------------------------------------
AcquireCalls == {"pvr_bo_alloc_bo", "buffer_create", "buffer_map", "heap_alloc"}
\* the call that gives back what a call acquired
release_of(call) ==
  CASE call = "pvr_bo_alloc_bo" -> "pvr_bo_free_bo"
    [] call = "buffer_create" -> "buffer_destroy"
    [] call = "buffer_map" -> "buffer_unmap"
    [] call = "heap_alloc" -> "heap_free"

Reverse(q) == [k \in 1..Len(q) |-> q[Len(q) + 1 - k]]
\* the resources a sequence of calls acquired, in the order of acquisition
Acquired(calls) ==
  SelectSeq(calls, LAMBDA c : c[2] /\ c[1] \in AcquireCalls)
\* the calls of the sequence that release a resource
Released(calls) ==
  SelectSeq(calls, LAMBDA c : c[1] \in {release_of(a) : a \in AcquireCalls})
\* the step of a pvr_bo_alloc call that failed, "none" if none did
FailedStep(calls) ==
  IF \E k \in 1..Len(calls) : ~calls[k][2]
  THEN calls[CHOOSE k \in 1..Len(calls) : ~calls[k][2]][1]
  ELSE "none"

\* every resource acquired is released once, the last acquired first
ReleasedInReverse(calls) ==
  LET acq == Acquired(calls)
      rel == Released(calls)
  IN /\ Len(rel) = Len(acq)
     /\ \A k \in 1..Len(acq) : Reverse(rel)[k][1] = release_of(acq[k][1])
     /\ calls = SubSeq(calls, 1, Len(calls) - Len(rel)) \o rel

\* thread t has made a pvr_bo_alloc call that has returned
AllocReturned(t) == threads[t].op = "pvr_bo_alloc" /\ threads[t].pc = "idle"
AllocFailed(t) == AllocReturned(t) /\ threads[t].ret # "VK_SUCCESS"

\* C27: a pvr_bo_alloc call in which a step failed returns a result other
\* than VK_SUCCESS, has released every resource its earlier steps acquired
\* exactly once and in the reverse order of acquisition, the CPU mapping
\* only with CPU_MAPPED, holds nothing any more, has put no pvr_bo into the
\* store and has not written *pvr_bo_out; a call in which no step failed
\* returns VK_SUCCESS, has written the pvr_bo to *pvr_bo_out and, on a
\* device with a store, the pvr_bo is in the store.
C27_AllocFailureUnwinds ==
  \A t \in Threads : AllocReturned(t) =>
    LET th == threads[t]
        tracked == IF bo_store.present THEN rb_nodes(bo_store.tree) ELSE {}
    IN IF FailedStep(th.calls) # "none"
       THEN /\ th.ret # "VK_SUCCESS"
            /\ ReleasedInReverse(th.calls)
            /\ (\E k \in 1..Len(th.calls) : th.calls[k][1] = "buffer_unmap")
                 => CPU_MAPPED \in th.flags
            /\ th.bo # 0 => (bos[th.bo] = FreeBo /\ th.bo \notin tracked)
            /\ th.out = -1
       ELSE /\ th.ret = "VK_SUCCESS"
            /\ th.out = th.bo /\ th.bo # 0
            /\ Released(th.calls) = <<>>
            /\ bo_store.present => th.bo \in tracked

\* a call with CPU_MAPPED whose vma_map failed, after heap_free,
\* buffer_unmap, buffer_destroy and the free of the pvr_bo
C27_Witness ==
  /\ AllocFailed(1)
  /\ FailedStep(threads[1].calls) = "vma_map"
  /\ CPU_MAPPED \in threads[1].flags
  /\ Len(Released(threads[1].calls)) = 4
  /\ bo_store.present /\ bo_store.size = 2

\* a call without CPU_MAPPED whose heap_alloc failed: no buffer_unmap
C27_WitnessNoMap ==
  /\ AllocFailed(1)
  /\ FailedStep(threads[1].calls) = "heap_alloc"
  /\ Len(Released(threads[1].calls)) = 2

\* a call that succeeded on a device with a store
C27_WitnessSuccess ==
  /\ AllocReturned(1) /\ threads[1].ret = "VK_SUCCESS"
  /\ bo_store.present /\ threads[1].out \in rb_nodes(bo_store.tree)

\* ------------------------------------------------------------------------
\* C28: the store under its mutex
\* ------------------------------------------------------------------------
\* thread t is between simple_mtx_lock and simple_mtx_unlock
InCritical(t) == threads[t].pc \in {"tree", "size", "unlock"}

\* the pvr_bo objects allocated and not yet freed, as the store sees them
\* while its mutex is free: those pvr_bo_alloc has returned and pvr_bo_free
\* has not been called on, those whose pvr_bo_alloc has left
\* pvr_bo_store_insert and is about to return, and those whose pvr_bo_free
\* has not yet entered the critical section of pvr_bo_store_remove
AllocatedNotFreed ==
  {b \in BoIds :
     \/ bos[b].st = "owned"
     \/ \E t \in Threads :
          /\ threads[t].bo = b
          /\ \/ threads[t].op = "pvr_bo_alloc" /\ threads[t].pc = "return"
             \/ threads[t].op = "pvr_bo_free" /\ threads[t].pc = "lock"}

\* C28: on a device with a store, under any interleaving of pvr_bo_alloc,
\* pvr_bo_free and pvr_bo_store_lookup calls of several threads, a thread
\* that inserts into, removes from or searches the tree holds the mutex, so
\* no two threads are between lock and unlock together; and whenever the
\* mutex is free, store->size is the number of entries of the tree, which
\* are the pvr_bo objects allocated and not yet freed.
C28_StoreUnderMutex ==
  bo_store.present =>
    /\ \A t \in Threads : InCritical(t) => bo_store.mutex = t
    /\ \A t1, t2 \in Threads : (InCritical(t1) /\ InCritical(t2)) => t1 = t2
    /\ bo_store.mutex = 0 =>
         /\ bo_store.size = Cardinality(rb_nodes(bo_store.tree))
         /\ rb_nodes(bo_store.tree) = AllocatedNotFreed

\* one thread has inserted its node and not yet counted it, the other
\* waits for the mutex to remove a node
C28_Witness ==
  /\ bo_store.present
  /\ \E t1, t2 \in Threads :
       /\ threads[t1].op = "pvr_bo_alloc" /\ threads[t1].pc = "size"
       /\ threads[t2].op = "pvr_bo_free" /\ threads[t2].pc = "lock"
       /\ bo_store.size # Cardinality(rb_nodes(bo_store.tree))

\* the mutex is free with two entries in the tree while a lookup waits
C28_WitnessFree ==
  /\ bo_store.present /\ bo_store.mutex = 0 /\ bo_store.size = 2
  /\ \E t \in Threads : threads[t].op = "pvr_bo_store_lookup" /\ threads[t].pc = "lock"

\* no call in progress: the tree holds the objects the callers own
C28_WitnessQuiet ==
  /\ bo_store.present /\ AllIdle
  /\ rb_nodes(bo_store.tree) = {b \in BoIds : bos[b].st = "owned"}
  /\ bo_store.size = 2

\* ------------------------------------------------------------------------
\* C29: pvr_bo_store_lookup
\* ------------------------------------------------------------------------
\* the live pvr_bo objects: returned by pvr_bo_alloc and not freed
LiveBos == {b \in BoIds : bos[b].st = "owned"}
LiveDisjoint ==
  \A a, b \in LiveBos : a # b => ~Overlap(bos[a].vma, bos[b].vma)
\* the live objects whose range holds the address
LiveAt(addr) == {b \in LiveBos : InRange(bos[b].vma, addr)}

\* thread t has searched the tree in a pvr_bo_store_lookup call, or the
\* call has returned
LookupDone(t) ==
  /\ threads[t].op = "pvr_bo_store_lookup"
  /\ threads[t].pc \in {"unlock", "return", "idle"}

\* C29: after any sequence of allocations and frees, the live objects
\* having disjoint ranges, pvr_bo_store_lookup(addr) gives the live pvr_bo
\* whose range [dev_addr, dev_addr + size) holds addr when there is one and
\* NULL when there is none, and NULL on a device without a store; the
\* comparator of the insertion and the comparator of the search agree on
\* every pair of stored nodes, and the search finds every stored pvr_bo
\* from every address of its range.
C29_LookupFindsLive ==
  /\ (DeviceAlive /\ LiveDisjoint /\ LookupDone(1)) =>
       LET th == threads[1]
       IN /\ ~bo_store.present => (th.bo = 0 /\ th.ret = NULL)
          /\ bo_store.present =>
               /\ LiveAt(th.addr) # {} => LiveAt(th.addr) = {th.bo}
               /\ LiveAt(th.addr) = {} => th.bo = 0
               /\ th.pc = "idle" => (th.ret = NULL) = (th.bo = 0)
  /\ (DeviceAlive /\ bo_store.present) =>
       LET T == bo_store.tree
       IN /\ \A a, b \in rb_nodes(T) : a # b =>
               pvr_bo_store_entry_cmp(bos[a].vma, bos[b].vma)
                 = pvr_bo_store_entry_cmp_key(bos[a].vma, bos[b].vma.dev_addr)
          /\ \A b \in rb_nodes(T), addr \in LookupAddrs :
               InRange(bos[b].vma, addr) => rb_tree_search(bos, T, addr) = b

\* three live objects, the root of the tree with a node on either side, and
\* a lookup that returned a pvr_bo that is not the root
C29_Witness ==
  /\ bo_store.present /\ DeviceAlive
  /\ Cardinality(LiveBos) = 3
  /\ bo_store.tree.left[bo_store.tree.root] # 0
  /\ bo_store.tree.right[bo_store.tree.root] # 0
  /\ LookupDone(1) /\ threads[1].pc = "idle" /\ threads[1].ret = "bo"
  /\ threads[1].bo # bo_store.tree.root

\* a lookup between two live objects that returned NULL
C29_WitnessMiss ==
  /\ bo_store.present /\ DeviceAlive
  /\ LookupDone(1) /\ threads[1].pc = "idle" /\ threads[1].ret = NULL
  /\ \E a, b \in LiveBos :
       bos[a].vma.dev_addr < threads[1].addr /\ threads[1].addr < bos[b].vma.dev_addr

\* a lookup on a device without a store, with a live object at the address
C29_WitnessNoStore ==
  /\ ~bo_store.present /\ DeviceAlive
  /\ LookupDone(1) /\ threads[1].ret = NULL /\ LiveAt(threads[1].addr) # {}

\* ------------------------------------------------------------------------
\* C30: pvr_bo_store_dump without a store
\* ------------------------------------------------------------------------
DumpedWithoutStore == last.op = "pvr_bo_store_dump" /\ ~bo_store.present

\* C30: pvr_bo_store_dump on a device without a store, because tracking is
\* off or because the store was destroyed, reports that no BO store is
\* present and returns false, and has read no field of the store.
C30_DumpWithoutStore ==
  DumpedWithoutStore =>
    /\ last.ret = "false"
    /\ last.why = "no_store"
    /\ last.arg = <<>>

\* the dump of a device whose store was destroyed has read store->size
\* through the NULL pointer and faulted
C30_WitnessNullRead ==
  /\ DumpedWithoutStore /\ bo_store.destroyed
  /\ last.ret = "crash" /\ last.arg = <<"size">>

\* with a store, the dump reads the size and walks the tree
C30_DumpWithStore ==
  (last.op = "pvr_bo_store_dump" /\ bo_store.present) =>
    (last.ret = "true" /\ last.arg = <<"size", "tree">>)
====
